---- MODULE Spec2Model ----
(***************************************************************************)
(* Model of the CodingGym grading bot: the heap-backed PriorityQueue, the  *)
(* StepQueue (one PriorityQueue per pipeline step, a lock, two pause       *)
(* flags and a pickled snapshot), and the threads of bot.py that share it. *)
(*                                                                         *)
(* Four specifications are defined over the same variables:                *)
(*   SpecPQ    one PriorityQueue driven by add_job / get_next_job;         *)
(*   SpecSQ    one StepQueue driven by arbitrary add_job / get_next_job /  *)
(*             get_done_job calls;                                         *)
(*   SpecSnap  a StepQueue that is snapshotted, then rebuilt by a fresh    *)
(*             process, run side by side with the object it was taken of;  *)
(*   Spec      the process of bot.py: three workers, the done-job worker,  *)
(*             the main (delivery) loop and the updater (ingress).         *)
(***************************************************************************)
EXTENDS Integers, Sequences, FiniteSets, TLC

VARIABLES
    pq,          \* SpecPQ: PriorityQueue._queue, a list of <<priority, job>>
    pqRet,       \* SpecPQ: outcome of the last PriorityQueue call
    queues,      \* StepQueue._queues: step -> list of <<priority, job>>
    pause,       \* StepQueue.pause
    pause_done,  \* StepQueue.pause_done
    ret,         \* SpecSQ/SpecSnap: outcome of the last StepQueue call
    enq,         \* SpecSQ: job -> number of times add_job stored it
    taken,       \* SpecSQ: job -> number of times a take returned it
    disk,        \* the file queue_snapshot: NoFile or the pickled object
    orig,        \* SpecSnap: the object as it was when snapshot() returned
    origRet,     \* SpecSnap: outcome of the last call on orig
    phase,       \* SpecSnap: "live", "snapshotted", then "restored"
    jobsIn,      \* Spec: Job objects the updater has created so far
    jobf,        \* Spec: job -> the fields broken and text_content
    workspace,   \* Spec: job -> whether the directory job.path exists
    trail,       \* Spec: job -> the steps add_job has stored it at, in order
    outs,        \* Spec: job -> how its stage handlers ended, in order
    wpc,         \* Spec: worker -> where the worker coroutine is
    wjob,        \* Spec: worker -> the job it took, and
    wstep,       \*       the step it took it from
    cooldown,    \* worker_done_job: its local counter of skipped iterations
    apc,         \* Spec: where worker_done_job is,
    ajob,        \*       and the job it took
    mpc,         \* Spec: where the loop of main() is,
    mjob,        \*       the job it took,
    failed_tries, \*      its failure counter and
    faults,      \*       the IPC faults met so far
    upc,         \* Spec: where the updater is
    delivered,   \* Spec: job -> terminateJob requests that succeeded
    caught,      \* SpecIngress: what the except blocks of updater caught
    lock,        \* SpecLock: the thread that holds StepQueue._lock
    tpc,         \* SpecLock: thread -> where it is,
    tjob,        \*           the job it has in hand and
    tstep,       \*           the step it took it from or adds it to
    dump,        \* SpecLock: thread -> what its pickle.dump has read so far
    expected,    \* SpecCompare: the outputs a test case expects,
    result,      \*              the output the program under test printed
    verdict      \*              and what compare_results returned

pqVars   == <<pq, pqRet>>
sqVars   == <<queues, pause, pause_done>>
apiVars  == <<ret, enq, taken>>
snapVars == <<disk, orig, origRet, phase>>
workerVars == <<wpc, wjob, wstep>>
advVars  == <<apc, ajob, cooldown>>
mainVars == <<mpc, mjob, failed_tries, faults, delivered>>
updVars  == <<jobsIn, upc>>
jobVars  == <<jobf, workspace, trail, outs>>
obsVars  == <<caught>>
lockVars == <<lock, tpc, tjob, tstep, dump>>
cmpVars  == <<expected, result, verdict>>
procVars == <<jobVars, workerVars, advVars, mainVars, updVars, obsVars,
              lockVars, cmpVars>>
harnessVars == <<pqVars, apiVars, orig, origRet, phase, obsVars, lockVars,
                 cmpVars>>
vars     == <<pq, pqRet, queues, pause, pause_done, ret, enq, taken,
              disk, orig, origRet, phase, jobsIn, jobf, workspace, trail, outs, wpc, wjob, wstep,
              apc, ajob, cooldown, mpc, mjob, failed_tries, faults, upc,
              delivered, caught, lock, tpc, tjob, tstep, dump, expected, result,
              verdict>>

----------------------------------------------------------------------------
(* Bounds and program constants *)

\* number of entries of STEPS_CHART, the argument of StepQueue(...)
N_STAGES == 6
\* the priority add_job uses when none is given
DefaultPriority == 5
\* ingress may supply any integer priority: the priorities tried are the
\* default and the values this far below and above it
PrioritySpread == 1

\* the worker threads main() starts
NWorkers == 3
\* failed_tries at which the loop of main() ends
MaxFailedTries == 10

\* jobs the updater receives in Spec
MaxJobs == 1
\* IPC faults the result sink shows in Spec
MaxFaults == 1
\* IPC faults the result sink shows in SpecDelivery
MaxDeliveryFaults == 10
\* jobs pushed on the single PriorityQueue of SpecPQ
MaxPQJobs == 7
\* add_job calls that store a job in the StepQueue of SpecSQ
MaxSQEnq == 3
\* add_job calls that store a job before the restart of SpecSnap
MaxSnapEnq == 2
\* add_job calls that store a job in SpecFile
MaxFileEnq == 1
\* the Job objects handed to it: a call passes a new or an old one
MaxSQJobs == MaxSQEnq

Stages     == 0 .. (N_STAGES - 1)
Priorities == {DefaultPriority - PrioritySpread, DefaultPriority,
               DefaultPriority + PrioritySpread}
\* the StepQueue specifications try the default and one more urgent value
SQPriorities == {DefaultPriority - PrioritySpread, DefaultPriority}
NoJob      == 0
\* threading.Lock() not held
NoThread   == 0
\* the content of the snapshot file when there is no such file
NoFile     == [class |-> "no file"]

----------------------------------------------------------------------------
(* heapq on a list of (priority, Job) tuples.  Positions are 0-based as in *)
(* the library; the list h itself is a 1-based TLA+ sequence.              *)

\* (p1, j1) < (p2, j2) on tuples: the first differing component decides.
\* Job defines neither __eq__ nor __lt__: two distinct jobs differ, and
\* ordering them raises TypeError; one job paired with itself is equal.
TupleLt(a, b) ==
    IF a[1] # b[1] THEN (IF a[1] < b[1] THEN "lt" ELSE "ge")
    ELSE IF a[2] = b[2] THEN "ge"
    ELSE "err"

Swap(h, i, j) == [h EXCEPT ![i + 1] = h[j + 1], ![j + 1] = h[i + 1]]

\* _siftdown: move the item at pos up while it is smaller than its parent.
RECURSIVE siftdown(_, _, _)
siftdown(h, startpos, pos) ==
    IF pos > startpos
    THEN LET parentpos == (pos - 1) \div 2
             c == TupleLt(h[pos + 1], h[parentpos + 1])
         IN  IF c = "err" THEN [heap |-> h, err |-> TRUE]
             ELSE IF c = "ge" THEN [heap |-> h, err |-> FALSE]
             ELSE siftdown(Swap(h, pos, parentpos), startpos, parentpos)
    ELSE [heap |-> h, err |-> FALSE]

\* _siftup: bubble the smaller child up until a leaf, then sift down.
RECURSIVE siftup(_, _, _)
siftup(h, startpos, pos) ==
    LET endpos == Len(h)
        limit  == endpos \div 2
        childpos == 2 * pos + 1
    IN  IF pos < limit
        THEN IF childpos + 1 < endpos
             THEN LET c == TupleLt(h[childpos + 1], h[childpos + 2])
                  IN  IF c = "err" THEN [heap |-> h, err |-> TRUE]
                      ELSE LET ch == IF c = "lt" THEN childpos ELSE childpos + 1
                           IN  siftup(Swap(h, ch, pos), startpos, ch)
             ELSE siftup(Swap(h, childpos, pos), startpos, childpos)
        ELSE siftdown(h, startpos, pos)

\* heapq.heappush: the item is appended first, then sifted; a comparison
\* that raises leaves the item where the sift had brought it.
heappush(h, item) == siftdown(Append(h, item), 0, Len(h))

\* heapq.heappop on a non-empty list: the last item is removed and put at
\* the root, the old root is returned after the sift; a comparison that
\* raises leaves the old root dropped from the list and not returned.
heappop(h) ==
    LET n       == Len(h)
        lastelt == h[n]
        rest    == SubSeq(h, 1, n - 1)
    IN  IF n = 1
        THEN [heap |-> <<>>, err |-> FALSE, item |-> lastelt]
        ELSE LET r == siftup([rest EXCEPT ![1] = lastelt], 0, 0)
             IN  [heap |-> r.heap, err |-> r.err, item |-> h[1]]

----------------------------------------------------------------------------
(* PriorityQueue *)

\* PriorityQueue.add_job(job, priority)
PQAddJob(h, job, priority) == heappush(h, <<priority, job>>)

\* a get_next_job that reads the root of the heap and leaves it there
PQPeekNextJob(h) ==
    IF Len(h) > 0
    THEN [heap |-> h, err |-> FALSE, item |-> h[1]]
    ELSE [heap |-> h, err |-> FALSE, item |-> <<0, NoJob>>]

\* PriorityQueue.get_next_job(): None on an empty list
PQGetNextJob(h) ==
    IF Len(h) > 0
    THEN heappop(h)
    ELSE [heap |-> h, err |-> FALSE, item |-> <<0, NoJob>>]

\* PriorityQueue.get_length()
PQGetLength(h) == Len(h)

JobsOf(h) == {h[i][2] : i \in 1 .. Len(h)}

----------------------------------------------------------------------------
(* StepQueue.  A StepQueue object is the record                           *)
(*   [queues, pause, pause_done];                                         *)
(* every method runs under self._lock, so each is one atomic step.  A     *)
(* method yields [sq, res, stage, job]: the object afterwards and what    *)
(* the caller sees: a return value or the exception that escaped.         *)

\* self._queues[step]: list indexing accepts -len .. len-1, a negative
\* index counting from the end; anything else raises IndexError (-1 here)
ListIndex(step) ==
    IF step >= 0 /\ step < N_STAGES THEN step
    ELSE IF step < 0 /\ step >= 0 - N_STAGES THEN step + N_STAGES
    ELSE -1

\* an add_job that stores the job and leaves the flags as they are
SQAddJobKeepsFlags(sq, step, job, priority) ==
    LET i == ListIndex(step)
    IN  IF i = -1
        THEN [sq |-> sq, res |-> "IndexError", stage |-> step, job |-> job]
        ELSE LET r == PQAddJob(sq.queues[i], job, priority)
             IN  [sq |-> [sq EXCEPT !.queues[i] = r.heap],
                  res |-> IF r.err THEN "TypeError" ELSE "ok",
                  stage |-> i, job |-> job]

\* StepQueue.add_job(step, job, priority): the flags are cleared only when
\* the push returned; an exception leaves the lock block before that
SQAddJob(sq, step, job, priority) ==
    LET i == ListIndex(step)
    IN  IF i = -1
        THEN [sq |-> sq, res |-> "IndexError", stage |-> step, job |-> job]
        ELSE LET r == PQAddJob(sq.queues[i], job, priority)
             IN  IF r.err
                 THEN [sq |-> [sq EXCEPT !.queues[i] = r.heap],
                       res |-> "TypeError", stage |-> i, job |-> job]
                 ELSE [sq |-> [queues |-> [sq.queues EXCEPT ![i] = r.heap],
                               pause |-> FALSE, pause_done |-> FALSE],
                       res |-> "ok", stage |-> i, job |-> job]

\* the loop run over every queue, self._queues, the done steps included
RECURSIVE LargestStepFromAllQueues(_, _, _, _)
LargestStepFromAllQueues(qs, i, larger, step) ==
    IF i > N_STAGES - 1 THEN step
    ELSE IF PQGetLength(qs[i]) > larger
         THEN LargestStepFromAllQueues(qs, i + 1, PQGetLength(qs[i]), i)
         ELSE LargestStepFromAllQueues(qs, i + 1, larger, step)

\* the loop of get_next_job over self._queues[:-2]: the first step whose
\* length exceeds every length before it; -1 stands for None
RECURSIVE LargestStepFrom(_, _, _, _)
LargestStepFrom(qs, i, larger, step) ==
    IF i > N_STAGES - 3 THEN step
    ELSE IF PQGetLength(qs[i]) > larger
         THEN LargestStepFrom(qs, i + 1, PQGetLength(qs[i]), i)
         ELSE LargestStepFrom(qs, i + 1, larger, step)

LargestStep(qs) == LargestStepFrom(qs, 0, 0, -1)

\* the common tail of get_next_job and get_done_job: pop queue[step];
\* which names the flag an empty queue sets
PopStep(sq, step, which) ==
    LET r == PQGetNextJob(sq.queues[step])
    IN  IF r.err
        THEN [sq |-> [sq EXCEPT !.queues[step] = r.heap],
              res |-> "TypeError", stage |-> step, job |-> NoJob]
        ELSE IF r.item[2] # NoJob
        THEN [sq |-> [sq EXCEPT !.queues[step] = r.heap],
              res |-> "job", stage |-> step, job |-> r.item[2]]
        ELSE [sq |-> IF which = "pause" THEN [sq EXCEPT !.pause = TRUE]
                     ELSE [sq EXCEPT !.pause_done = TRUE],
              res |-> "None", stage |-> step, job |-> NoJob]

\* a get_next_job that sets both flags when it finds nothing
SQGetNextJobPausesBoth(sq) ==
    LET step == LargestStep(sq.queues)
    IN  IF step = -1
        THEN [sq |-> [sq EXCEPT !.pause = TRUE, !.pause_done = TRUE],
              res |-> "None", stage |-> -1, job |-> NoJob]
        ELSE PopStep(sq, step, "pause")

\* StepQueue.get_next_job() as the workers call it, without a step
SQGetNextJob(sq) ==
    LET step == LargestStep(sq.queues)
    IN  IF step = -1
        THEN [sq |-> [sq EXCEPT !.pause = TRUE],
              res |-> "None", stage |-> -1, job |-> NoJob]
        ELSE PopStep(sq, step, "pause")

\* StepQueue.get_done_job(step)
SQGetDoneJob(sq, step) ==
    LET i == ListIndex(step)
    IN  IF i = -1
        THEN [sq |-> sq, res |-> "IndexError", stage |-> step, job |-> NoJob]
        ELSE PopStep(sq, i, "pause_done")

\* the StepQueue object held in the variables
Self == [queues |-> queues, pause |-> pause, pause_done |-> pause_done]

SetSelf(sq) ==
    /\ queues' = sq.queues
    /\ pause' = sq.pause
    /\ pause_done' = sq.pause_done

\* how many entries of the step queues hold job j
RECURSIVE CountIn(_, _)
CountIn(h, j) ==
    IF h = <<>> THEN 0
    ELSE (IF h[1][2] = j THEN 1 ELSE 0) + CountIn(Tail(h), j)

RECURSIVE CountUpTo(_, _, _)
CountUpTo(qs, s, j) ==
    IF s < 0 THEN 0 ELSE CountIn(qs[s], j) + CountUpTo(qs, s - 1, j)

Held(qs, j) == CountUpTo(qs, N_STAGES - 1, j)

----------------------------------------------------------------------------
(* SpecPQ: one PriorityQueue; the k-th job pushed is job k. *)

\* the last StepQueue method called and how it ended for its caller:
\* "ok", "job" (a take returned a (step, job) pair), "None", or the
\* exception that escaped
NoCall == [op |-> "none", res |-> "none"]

Workers == 1 .. NWorkers

\* the threads of SpecLock: the workers, the updater and main
UpdaterThread == NWorkers + 1
MainThread    == NWorkers + 2
LockThreads   == Workers \cup {UpdaterThread, MainThread}

\* a thread that is not inside pickle.dump
NoDump == [open |-> FALSE]

\* where each thread of SpecLock starts: at the call its loop begins with
FirstCall(t) ==
    CASE t = UpdaterThread -> "recv"
      [] t = MainThread -> "call get_done_job"
      [] OTHER -> "call get_next_job"

\* Job.__init__: broken = False, text_content = "", gpt_content = ""
NewJob == [broken |-> FALSE, text |-> "", gpt_content |-> ""]

\* what a field holds when the Job object has no such attribute: pickle
\* restores the attributes the object had when it was written, and does
\* not call __init__, so a job written by a Job class without the field
\* comes back without it
NoAttribute == "AttributeError"

IdleInit ==
    /\ pq = <<>>
    /\ pqRet = [op |-> "none", job |-> NoJob, priority |-> 0, res |-> "none", n |-> 0]
    /\ queues = [s \in Stages |-> <<>>]
    /\ pause = FALSE
    /\ pause_done = FALSE
    /\ ret = NoCall
    /\ enq = [j \in 1 .. MaxSQJobs |-> 0]
    /\ taken = [j \in 1 .. MaxSQJobs |-> 0]
    /\ disk = NoFile
    /\ orig = [queues |-> [s \in Stages |-> <<>>], pause |-> FALSE,
               pause_done |-> FALSE]
    /\ origRet = NoCall
    /\ phase = "live"
    /\ jobsIn = 0
    /\ jobf = [j \in 1 .. MaxJobs |-> NewJob]
    /\ workspace = [j \in 1 .. MaxJobs |-> TRUE]
    /\ trail = [j \in 1 .. MaxJobs |-> <<>>]
    /\ outs = [j \in 1 .. MaxJobs |-> <<>>]
    /\ wpc = [w \in Workers |-> "idle"]
    /\ wjob = [w \in Workers |-> NoJob]
    /\ wstep = [w \in Workers |-> 0]
    /\ apc = "idle"
    /\ ajob = NoJob
    /\ cooldown = 0
    /\ mpc = "loop"
    /\ mjob = NoJob
    /\ failed_tries = 0
    /\ faults = 0
    /\ upc = "accept"
    /\ delivered = [j \in 1 .. MaxJobs |-> 0]
    /\ caught = <<>>
    /\ lock = NoThread
    /\ tpc = [t \in LockThreads |-> FirstCall(t)]
    /\ tjob = [t \in LockThreads |-> NoJob]
    /\ tstep = [t \in LockThreads |-> 0]
    /\ dump = [t \in LockThreads |-> NoDump]

\* ... and compare_results has not been called
BaseInit ==
    /\ IdleInit
    /\ expected = <<>>
    /\ result = <<>>
    /\ verdict = "none"

\* a fresh Job object is pushed: pqRet.n counts the jobs created so far
PQPush(priority) ==
    /\ pqRet.n < MaxPQJobs
    /\ LET job == pqRet.n + 1
           r   == PQAddJob(pq, job, priority)
       IN  /\ pq' = r.heap
           /\ pqRet' = [op |-> "push", job |-> job, priority |-> priority,
                        res |-> IF r.err THEN "TypeError" ELSE "ok",
                        n |-> job]

PQPop ==
    /\ LET r == PQGetNextJob(pq)
       IN  /\ pq' = r.heap
           /\ pqRet' = [op |-> "pop",
                        job |-> IF r.err THEN NoJob ELSE r.item[2],
                        priority |-> IF r.err THEN 0 ELSE r.item[1],
                        res |-> IF r.err THEN "TypeError"
                                ELSE IF r.item[2] = NoJob THEN "None" ELSE "job",
                        n |-> pqRet.n]

NextPQ ==
    \/ \E p \in Priorities : PQPush(p) /\ UNCHANGED <<sqVars, apiVars, snapVars, procVars>>
    \/ PQPop /\ UNCHANGED <<sqVars, apiVars, snapVars, procVars>>

SpecPQ == BaseInit /\ [][NextPQ]_vars

\* C6: two jobs of equal priority in one queue: every add_job succeeds, and a
\* job that is popped leaves behind no job of the same priority that was
\* pushed before it (pops of equal priority follow insertion order).
C6_EqualPriorityFifo ==
    /\ (pqRet.op = "push" => pqRet.res = "ok")
    /\ (pqRet.op = "pop" /\ pqRet.res = "job" =>
           \A i \in 1 .. Len(pq) :
               pq[i][1] = pqRet.priority => pq[i][2] > pqRet.job)

\* C7: a pop never returns a job while a job of strictly lower priority
\* value is still waiting in the same queue.
C7_PopsAscendingPriority ==
    pqRet.op = "pop" /\ pqRet.res = "job" =>
        \A i \in 1 .. Len(pq) : pq[i][1] >= pqRet.priority

----------------------------------------------------------------------------
(* SpecSQ: one StepQueue, constructed with no snapshot on disk, driven by  *)
(* any sequence of add_job / get_next_job / get_done_job calls.            *)

\* the step arguments tried: every valid step, one negative, one too large
StepArgs == -1 .. N_STAGES

RECURSIVE SumTo(_, _)
SumTo(f, n) == IF n = 0 THEN 0 ELSE f[n] + SumTo(f, n - 1)

\* the add_job calls that stored a job so far
Stored == SumTo(enq, MaxSQJobs)

\* Job objects are interchangeable: a call passes the next unused job, or
\* one used before that is not in the queues now (as bot.py re-enqueues)
UsedJobs == {j \in 1 .. MaxSQJobs : enq[j] > 0}

SQEnqueue(step, job, priority) ==
    /\ Stored < MaxSQEnq
    /\ job <= Cardinality(UsedJobs) + 1
    /\ Held(queues, job) = 0
    /\ LET r == SQAddJob(Self, step, job, priority)
       IN  /\ SetSelf(r.sq)
           /\ ret' = [op |-> "add_job", res |-> r.res]
           /\ enq' = IF r.res = "IndexError" THEN enq
                     ELSE [enq EXCEPT ![job] = @ + 1]
    /\ UNCHANGED <<taken, pqVars, snapVars, procVars>>

SQTakeNormal ==
    /\ LET r == SQGetNextJob(Self)
       IN  /\ SetSelf(r.sq)
           /\ ret' = [op |-> "get_next_job", res |-> r.res]
           /\ taken' = IF r.res = "job" THEN [taken EXCEPT ![r.job] = @ + 1]
                       ELSE taken
    /\ UNCHANGED <<enq, pqVars, snapVars, procVars>>

SQTakeTerminal(step) ==
    /\ LET r == SQGetDoneJob(Self, step)
       IN  /\ SetSelf(r.sq)
           /\ ret' = [op |-> "get_done_job", res |-> r.res]
           /\ taken' = IF r.res = "job" THEN [taken EXCEPT ![r.job] = @ + 1]
                       ELSE taken
    /\ UNCHANGED <<enq, pqVars, snapVars, procVars>>

NextSQ ==
    \/ \E step \in StepArgs, job \in 1 .. MaxSQJobs, p \in SQPriorities :
           SQEnqueue(step, job, p)
    \/ SQTakeNormal
    \/ \E step \in Stages : SQTakeTerminal(step)

SpecSQ == BaseInit /\ [][NextSQ]_vars

NormalStages == 0 .. (N_STAGES - 3)

\* the job a take step returned, as the ghost count of returned jobs shows
ReturnedJob(j) == taken' = [taken EXCEPT ![j] = @ + 1]

\* C2: the jobs held in the step queues are, as a multiset, the jobs stored
\* by add_job so far minus the jobs returned by takes so far.
C2_HeldIsEnqueuedMinusTaken ==
    \A j \in 1 .. MaxSQJobs : Held(queues, j) = enq[j] - taken[j]

\* C8: get_next_job() without a step never changes the queues of steps 4
\* and 5, and a job it returns was waiting in one of the steps 0-3.
C8_TakeNormalAvoidsDoneSteps ==
    [][SQTakeNormal =>
         /\ queues'[N_STAGES - 2] = queues[N_STAGES - 2]
         /\ queues'[N_STAGES - 1] = queues[N_STAGES - 1]
         /\ \A j \in 1 .. MaxSQJobs :
               ReturnedJob(j) =>
                   \E s \in NormalStages :
                       /\ j \in JobsOf(queues[s])
                       /\ j \notin JobsOf(queues'[s])]_vars

\* C8 witness: get_next_job() returned a job while both done steps held
\* jobs and step 4 was at least as long as every normal step had been.
C8_Witness ==
    /\ ret.op = "get_next_job" /\ ret.res = "job"
    /\ queues[N_STAGES - 2] # <<>> /\ queues[N_STAGES - 1] # <<>>
    /\ \A s \in NormalStages :
           Len(queues[s]) + 1 <= Len(queues[N_STAGES - 2])

\* the longest of the steps 0-3, the lowest index among equally long ones
LongestLowest(qs) ==
    CHOOSE s \in NormalStages :
        \A t \in NormalStages :
            /\ t < s => Len(qs[t]) < Len(qs[s])
            /\ t > s => Len(qs[t]) <= Len(qs[s])

\* C9: with a normal step non-empty, get_next_job() returns a job, the job
\* leaves the longest (lowest-index) step of 0-3 and no other queue changes.
C9_TakeNormalLongestLowest ==
    [][SQTakeNormal /\ (\E s \in NormalStages : queues[s] # <<>>) =>
         LET s == LongestLowest(queues)
         IN  /\ ret'.res = "job"
             /\ \A t \in Stages \ {s} : queues'[t] = queues[t]
             /\ Len(queues'[s]) = Len(queues[s]) - 1
             /\ \E j \in JobsOf(queues[s]) :
                   ReturnedJob(j) /\ j \notin JobsOf(queues'[s])]_vars

\* C24: get_done_job(step) with a step below N_STAGES - 2 removes no job
\* from a queue and returns none.
C24_TakeTerminalOnlyDoneSteps ==
    [][\A step \in NormalStages :
          SQTakeTerminal(step) =>
              /\ queues' = queues
              /\ taken' = taken
              /\ ret'.res # "job"]_vars

\* C25: add_job with a step outside 0 .. N_STAGES - 1, negative or too
\* large, changes no step queue.
C25_EnqueueOutOfRangeRejected ==
    [][\A step \in StepArgs \ Stages, job \in 1 .. MaxSQJobs,
          p \in SQPriorities :
          SQEnqueue(step, job, p) => queues' = queues]_vars

\* C26: add_job with a valid step puts the job in the queue of that step,
\* leaves the other queues as they are and leaves pause and pause_done
\* false, whatever they were.
C26_EnqueueFrame ==
    [][\A step \in Stages, job \in 1 .. MaxSQJobs, p \in SQPriorities :
          SQEnqueue(step, job, p) =>
              /\ CountIn(queues'[step], job) = CountIn(queues[step], job) + 1
              /\ Len(queues'[step]) = Len(queues[step]) + 1
              /\ \A t \in Stages \ {step} : queues'[t] = queues[t]
              /\ ~pause' /\ ~pause_done']_vars

\* C32: whenever pause is set, the queues of the steps 0-3 are empty,
\* under every sequence of add_job, get_next_job and get_done_job calls.
C32_PauseMeansNormalEmpty ==
    pause => \A s \in NormalStages : queues[s] = <<>>

\* C32 witness: pause is set, then an add_job to a done step has raised
\* on a priority tie and left the flag set, with a job taken before and
\* nothing waiting at the steps 0-3.
C32_Witness ==
    /\ pause
    /\ ret = [op |-> "add_job", res |-> "TypeError"]
    /\ \E j \in 1 .. MaxSQJobs : taken[j] >= 1
    /\ \A s \in NormalStages : queues[s] = <<>>

\* C27: a take that finds nothing returns None, sets its own flag and
\* leaves the queues and the other flag alone: get_next_job() with the
\* steps 0-3 empty sets pause, get_done_job(step) with the queue of the
\* step empty sets pause_done.
C27_EmptyTakeFrame ==
    [][/\ (SQTakeNormal /\ \A s \in NormalStages : queues[s] = <<>>) =>
              /\ ret'.res = "None"
              /\ pause' /\ pause_done' = pause_done
              /\ queues' = queues /\ taken' = taken
       /\ \A step \in Stages :
              (SQTakeTerminal(step) /\ queues[step] = <<>>) =>
                  /\ ret'.res = "None"
                  /\ pause_done' /\ pause' = pause
                  /\ queues' = queues /\ taken' = taken]_vars

\* C27 witness: get_next_job() found the steps 0-3 empty while pause_done
\* was off and a done step held a job: only pause is set, the job is
\* still there.
C27_Witness ==
    /\ ret = [op |-> "get_next_job", res |-> "None"]
    /\ pause /\ ~pause_done
    /\ \A s \in NormalStages : queues[s] = <<>>
    /\ queues[N_STAGES - 1] # <<>>

----------------------------------------------------------------------------
(* Snapshot and restore.  pickle.dump(self) writes the class and what      *)
(* __getstate__ returns; pickle.load builds an object of that class and    *)
(* hands the state to __setstate__.  The file holds priorities and Job     *)
(* objects by value; distinct jobs stay distinct objects after loading.    *)

EmptyQueues == [s \in Stages |-> <<>>]

\* StepQueue.__getstate__: the instance dictionary without the lock
GetState(sq) ==
    [f \in {"_queues", "pause", "pause_done", "__transient__"} |->
        CASE f = "_queues" -> sq.queues
          [] f = "pause" -> sq.pause
          [] f = "pause_done" -> sq.pause_done
          [] f = "__transient__" -> {"_lock"}]

\* StepQueue.__setstate__: the dictionary is taken over, a new lock made
SetState(state) ==
    [queues |-> state["_queues"], pause |-> state["pause"],
     pause_done |-> state["pause_done"]]

\* StepQueue.snapshot(): the content of the file after the call
SnapshotFile(sq) == [class |-> "StepQueue", state |-> GetState(sq)]

\* StepQueue.restore() that reads the file and drops what it read
RestoreWithoutSetQueues(sq, file) == sq

\* what the file queue_snapshot can hold besides a whole pickled StepQueue:
\* nothing (open(..., "wb") has truncated it, or only the protocol header
\* is there), a first part of the pickle, bytes that are no pickle, and the
\* pickle of an object of another class
EmptyFile     == [class |-> "empty"]
TruncatedFile == [class |-> "truncated"]
GarbageFile   == [class |-> "garbage"]
ForeignFile   == [class |-> "dict"]

Complete(file) == file.class = "StepQueue"
Torn(file)     == file.class \in {"empty", "truncated"}

\* restore(): how pickle.load(file) and data.get_queues() end
LoadOutcome(file) ==
    CASE file = NoFile -> "no file"
      [] file.class = "StepQueue" -> "object"
      [] file.class = "empty" -> "EOFError"
      [] file.class = "dict" -> "AttributeError"
      [] OTHER -> "UnpicklingError"

\* restore(): only EOFError is caught; what leaves the call otherwise
RestoreOutcome(file) ==
    IF LoadOutcome(file) \in {"no file", "object", "EOFError"}
    THEN "ok" ELSE LoadOutcome(file)

\* StepQueue.restore() on object sq: set_queues(data.get_queues()) when
\* the file exists and loads, nothing otherwise
Restore(sq, file) ==
    IF LoadOutcome(file) = "object"
    THEN [sq EXCEPT !.queues = SetState(file.state).queues]
    ELSE sq

\* StepQueue.__init__(len(STEPS_CHART)): empty queues, flags off, restore()
NewStepQueue(file) ==
    Restore([queues |-> EmptyQueues, pause |-> FALSE, pause_done |-> FALSE],
            file)

----------------------------------------------------------------------------
(* SpecSnap: a StepQueue is filled and drained, snapshot() is called, the  *)
(* process restarts (a new StepQueue is constructed over the file), and    *)
(* from then on the same takes are made on the new object and on orig,     *)
(* the object as it was when snapshot() returned.                          *)

SnapLive ==
    /\ phase = "live"
    /\ \/ \E step \in Stages, job \in 1 .. MaxSQJobs, p \in SQPriorities :
              Stored < MaxSnapEnq /\ SQEnqueue(step, job, p)
       \/ SQTakeNormal
       \/ \E step \in Stages : SQTakeTerminal(step)

SnapSnapshot ==
    /\ phase = "live"
    /\ disk' = SnapshotFile(Self)
    /\ orig' = Self
    /\ ret' = [op |-> "snapshot", res |-> "ok"]
    /\ phase' = "snapshotted"
    /\ UNCHANGED <<sqVars, enq, taken, origRet, pqVars, procVars>>

\* the process ends (right after a snapshot, or with none taken) and a new
\* one constructs its StepQueue
SnapRestart ==
    /\ phase \in {"live", "snapshotted"}
    /\ SetSelf(NewStepQueue(disk))
    /\ phase' = "restored"
    /\ ret' = NoCall
    /\ origRet' = NoCall
    /\ enq' = [j \in 1 .. MaxSQJobs |-> 0]
    /\ taken' = [j \in 1 .. MaxSQJobs |-> 0]
    /\ UNCHANGED <<disk, orig, pqVars, procVars>>

\* what a take hands to its caller
Outcome(r) == [res |-> r.res, stage |-> r.stage, job |-> r.job]

SnapTakeNormal ==
    /\ phase = "restored" /\ disk # NoFile
    /\ LET r == SQGetNextJob(Self)
           o == SQGetNextJob(orig)
       IN  /\ SetSelf(r.sq)
           /\ orig' = o.sq
           /\ ret' = Outcome(r)
           /\ origRet' = Outcome(o)
    /\ UNCHANGED <<enq, taken, disk, phase, pqVars, procVars>>

SnapTakeTerminal(step) ==
    /\ phase = "restored" /\ disk # NoFile
    /\ LET r == SQGetDoneJob(Self, step)
           o == SQGetDoneJob(orig, step)
       IN  /\ SetSelf(r.sq)
           /\ orig' = o.sq
           /\ ret' = Outcome(r)
           /\ origRet' = Outcome(o)
    /\ UNCHANGED <<enq, taken, disk, phase, pqVars, procVars>>

NextSnap ==
    \/ SnapLive
    \/ SnapSnapshot
    \/ SnapRestart
    \/ SnapTakeNormal
    \/ \E step \in Stages : SnapTakeTerminal(step)

SpecSnap == BaseInit /\ [][NextSnap]_vars

\* the step each waiting job is in
StageMap(qs) == {<<s, j>> \in Stages \X (1 .. MaxSQJobs) : j \in JobsOf(qs[s])}

----------------------------------------------------------------------------
(* SpecFile: the file queue_snapshot through the life of the process.      *)
(* snapshot() holds the lock, opens the file with "wb" (which empties it), *)
(* lets pickle.dump write and closes it.  The process can be killed at any *)
(* moment; the next process constructs its StepQueue over what is on disk. *)
(* Here orig is what the file held when snapshot() opened it, and the new  *)
(* process counts as taken the jobs that are not in its queues.            *)

\* the calls of the threads on the StepQueue while the process runs
FileLive ==
    /\ phase = "live"
    /\ \/ \E step \in Stages, job \in 1 .. MaxSQJobs, p \in SQPriorities :
              Stored < MaxFileEnq /\ SQEnqueue(step, job, p)
       \/ SQTakeNormal
       \/ \E step \in Stages : SQTakeTerminal(step)

\* snapshot(): open(os.path.join(path, "queue_snapshot"), "wb")
FileOpen ==
    /\ phase = "live"
    /\ orig' = disk
    /\ disk' = EmptyFile
    /\ phase' = "writing"
    /\ ret' = [op |-> "snapshot", res |-> "open"]
    /\ UNCHANGED <<sqVars, enq, taken, origRet, pqVars, procVars>>

\* snapshot(): pickle.dump has passed a first part of the pickle on
FileWrite ==
    /\ phase = "writing"
    /\ disk = EmptyFile
    /\ disk' = TruncatedFile
    /\ UNCHANGED <<sqVars, apiVars, orig, origRet, phase, pqVars, procVars>>

\* snapshot(): the with block closes the file and the call returns
FileClose ==
    /\ phase = "writing"
    /\ disk' = SnapshotFile(Self)
    /\ phase' = "live"
    /\ ret' = [op |-> "snapshot", res |-> "ok"]
    /\ UNCHANGED <<sqVars, enq, taken, orig, origRet, pqVars, procVars>>

\* the process is killed; the file stays as it is
FileKill ==
    /\ phase \in {"live", "writing"}
    /\ phase' = "down"
    /\ ret' = NoCall
    /\ UNCHANGED <<sqVars, enq, taken, disk, orig, origRet, pqVars, procVars>>

\* while no process runs, something else leaves a file of that name
FileDamage(file) ==
    /\ phase = "down"
    /\ disk # file
    /\ disk' = file
    /\ UNCHANGED <<sqVars, apiVars, orig, origRet, phase, pqVars, procVars>>

\* main: sq = StepQueue(len(STEPS_CHART.keys())) in the next process; an
\* exception that leaves restore() leaves the constructor and main()
FileConstruct ==
    /\ phase = "down"
    /\ SetSelf(NewStepQueue(disk))
    /\ ret' = [op |-> "StepQueue", res |-> RestoreOutcome(disk)]
    /\ phase' = IF RestoreOutcome(disk) = "ok" THEN "live" ELSE "failed"
    /\ taken' = [j \in 1 .. MaxSQJobs |->
                    enq[j] - Held(NewStepQueue(disk).queues, j)]
    /\ UNCHANGED <<enq, disk, orig, origRet, pqVars, procVars>>

NextFile ==
    \/ FileLive
    \/ FileOpen
    \/ FileWrite
    \/ FileClose
    \/ FileKill
    \/ \E file \in {GarbageFile, ForeignFile} : FileDamage(file)
    \/ FileConstruct

SpecFile == BaseInit /\ [][NextFile]_vars

\* C11: whenever the process can be killed inside snapshot(), the file is
\* the whole previous snapshot or the whole new one; the file is never a
\* partly written snapshot for a restart to read.
C11_SnapshotFileNeverTorn ==
    /\ phase = "writing" => disk \in {orig, SnapshotFile(Self)}
    /\ ~Torn(disk)

\* C12: constructing a StepQueue completes whatever the file is, and with
\* the file absent or not a whole snapshot every step queue is empty.
C12_ConstructionNeverFails ==
    ret.op = "StepQueue" =>
        /\ ret.res = "ok"
        /\ (disk = NoFile \/ ~Complete(disk)) => queues = EmptyQueues

----------------------------------------------------------------------------
(* The stage handlers as process_job sees them.  A handler ends in one of *)
(* the ways its code allows: "ok", "fail" (a False / 1 status), "timeout" *)
(* (running_test returns -1) or "raise" (an exception leaves the handler: *)
(* a missing test_cases.json, an archive that does not unpack, a division *)
(* by zero in abstraction_test, ...).                                     *)

HandlerOutcomes(step) ==
    CASE step = 0 -> {"ok", "fail", "raise"}
      [] step = 1 -> {"ok", "fail", "raise"}
      [] step = 2 -> {"ok", "fail", "timeout", "raise"}
      [] step = 3 -> {"ok", "raise"}

\* a process_job that sends a job past abstraction_test to step 4
NextStepAdvisoryAfterAbstraction(step, outcome) ==
    CASE step = 0 -> IF outcome = "ok" THEN 1 ELSE 5
      [] step = 1 -> IF outcome = "ok" THEN 2 ELSE 4
      [] step = 2 -> IF outcome = "ok" THEN 3
                     ELSE IF outcome = "fail" THEN 4 ELSE 5
      [] step = 3 -> 4

\* a process_job that goes on to the tests after a failed compilation
NextStepOnAfterCompileError(step, outcome) ==
    CASE step = 0 -> IF outcome = "ok" THEN 1 ELSE 5
      [] step = 1 -> 2
      [] step = 2 -> IF outcome = "ok" THEN 3
                     ELSE IF outcome = "fail" THEN 4 ELSE 5
      [] step = 3 -> 5

\* a process_job that treats every status but 0 of running_test alike
NextStepTimeoutAsFailure(step, outcome) ==
    CASE step = 0 -> IF outcome = "ok" THEN 1 ELSE 5
      [] step = 1 -> IF outcome = "ok" THEN 2 ELSE 4
      [] step = 2 -> IF outcome = "ok" THEN 3 ELSE 4
      [] step = 3 -> 5

\* a process_job that sends a job with a failed test back to the compiler
NextStepRecompiles(step, outcome) ==
    CASE step = 0 -> IF outcome = "ok" THEN 1 ELSE 5
      [] step = 1 -> IF outcome = "ok" THEN 2 ELSE 4
      [] step = 2 -> IF outcome = "ok" THEN 3
                     ELSE IF outcome = "fail" THEN 1 ELSE 5
      [] step = 3 -> 5

\* process_job: the step the job is added to next
NextStep(step, outcome) ==
    CASE step = 0 -> IF outcome = "ok" THEN 1 ELSE 5
      [] step = 1 -> IF outcome = "ok" THEN 2 ELSE 4
      [] step = 2 -> IF outcome = "ok" THEN 3
                     ELSE IF outcome = "fail" THEN 4 ELSE 5
      [] step = 3 -> 5

\* process_job and the handlers: what they write to the job
HandledJob(f, step, outcome) ==
    CASE step = 0 /\ outcome = "fail" ->
             [f EXCEPT !.broken = TRUE, !.text = "project files not generated"]
      [] step = 1 /\ outcome = "fail" ->
             [f EXCEPT !.broken = TRUE, !.text = "compiler output"]
      [] step = 2 /\ outcome = "ok" ->
             [f EXCEPT !.text = "tests passed"]
      [] step = 2 /\ outcome = "fail" ->
             [f EXCEPT !.broken = TRUE, !.text = "test failed"]
      [] step = 2 /\ outcome = "timeout" ->
             [f EXCEPT !.broken = TRUE, !.text = "took too long"]
      [] OTHER -> f

----------------------------------------------------------------------------
(* Spec: the threads of bot.py around one StepQueue.  An exception that    *)
(* leaves a coroutine ends asyncio.run and with it the thread ("dead");    *)
(* the other threads go on.  The test of sq.pause / sq.pause_done and the  *)
(* cooldown counter at the top of a worker loop only put off the next      *)
(* poll by a bounded number of sleeps and write nothing shared: a worker   *)
(* that is "idle" here polls at any moment, which leaves the reachable     *)
(* states of the queues, flags and jobs what they are with the counter.    *)
(* trail and outs record, for each job, the steps add_job stored it at and *)
(* the ways its stage handlers ended.                                      *)

\* a process_job that hands a job on as urgent
RequeuePriorityUrgent(step) == DefaultPriority - PrioritySpread

\* process_job, process_done_job and main call sq.add_job(step, job) with
\* no third argument: the priority is the default of the parameter
RequeuePriority(step) == DefaultPriority

\* sq.add_job(step, job, ...) as the history of the job sees it
Trailed(t, job, step, res) ==
    IF res = "IndexError" THEN t
    ELSE [t EXCEPT ![job] = Append(@, ListIndex(step))]

\* worker: the top of the loop and data = sq.get_next_job()
WorkerTake(w) ==
    /\ wpc[w] = "idle"
    /\ LET r == SQGetNextJob(Self)
       IN  /\ SetSelf(r.sq)
           /\ wpc' = [wpc EXCEPT ![w] =
                        CASE r.res = "job" -> "handle"
                          [] r.res = "None" -> "idle"
                          [] OTHER -> "dead"]
           /\ wjob' = [wjob EXCEPT ![w] = r.job]
           /\ wstep' = [wstep EXCEPT ![w] = IF r.res = "job" THEN r.stage ELSE 0]
    /\ UNCHANGED <<disk, jobVars, advVars, mainVars, updVars, harnessVars>>

\* worker: process_job(job, step, sq): the handler of the step, sq.add_job
\* and sq.snapshot(); an exception leaves process_job and the worker
WorkerHandle(w, outcome) ==
    /\ wpc[w] = "handle"
    /\ outcome \in HandlerOutcomes(wstep[w])
    /\ outs' = [outs EXCEPT ![wjob[w]] = Append(@, outcome)]
    /\ IF outcome = "raise"
       THEN /\ wpc' = [wpc EXCEPT ![w] = "dead"]
            /\ UNCHANGED <<sqVars, jobf, disk, trail>>
       ELSE LET r == SQAddJob(Self, NextStep(wstep[w], outcome), wjob[w],
                              RequeuePriority(NextStep(wstep[w], outcome)))
            IN  /\ SetSelf(r.sq)
                /\ jobf' = [jobf EXCEPT ![wjob[w]] =
                              HandledJob(@, wstep[w], outcome)]
                /\ trail' = Trailed(trail, wjob[w],
                                    NextStep(wstep[w], outcome), r.res)
                /\ wpc' = [wpc EXCEPT ![w] =
                             IF r.res = "ok" THEN "idle" ELSE "dead"]
                /\ disk' = IF r.res = "ok" THEN SnapshotFile(r.sq) ELSE disk
    /\ wjob' = [wjob EXCEPT ![w] = NoJob]
    /\ wstep' = [wstep EXCEPT ![w] = 0]
    /\ UNCHANGED <<workspace, advVars, mainVars, updVars, harnessVars>>

\* worker_done_job: the top of the loop and data = sq.get_done_job(step=4);
\* "cooldown = 0" stands inside "if sq.pause_done:", after the continue
AdvTake ==
    /\ apc = "idle"
    /\ LET r == SQGetDoneJob(Self, N_STAGES - 2)
       IN  /\ SetSelf(r.sq)
           /\ apc' = CASE r.res = "job" -> "handle"
                       [] r.res = "None" -> "idle"
                       [] OTHER -> "dead"
           /\ ajob' = r.job
    /\ cooldown' = IF pause_done THEN 0 ELSE cooldown
    /\ UNCHANGED <<disk, jobVars, workerVars, mainVars, updVars,
                   harnessVars>>

\* chatgpt_consolidation: how the completion request ends: a message with
\* content, a message without content, or an exception (no API key, the
\* service unreachable, an answer without choices, ...)
AdvisorOutcomes == {"reply", "empty", "raise"}

\* the text the except block of chatgpt_consolidation stores
AdvisorFallback == "No se pudo obtener respuesta de ChatGPT"

\* a chatgpt_consolidation that clears job.broken
ConsolidatedJobNotBroken(f, outcome) ==
    CASE outcome = "reply" ->
             [f EXCEPT !.broken = FALSE, !.gpt_content = "advice"]
      [] outcome = "raise" ->
             [f EXCEPT !.broken = FALSE, !.gpt_content = AdvisorFallback]
      [] OTHER -> [f EXCEPT !.broken = FALSE]

\* a chatgpt_consolidation whose except block only prints the exception
ConsolidatedJobNoFallback(f, outcome) ==
    IF outcome = "reply" THEN [f EXCEPT !.gpt_content = "advice"] ELSE f

\* chatgpt_consolidation(job): it writes job.gpt_content only: the content
\* of the reply when there is one, the fallback text when an Exception was
\* caught
ConsolidatedJob(f, outcome) ==
    CASE outcome = "reply" -> [f EXCEPT !.gpt_content = "advice"]
      [] outcome = "raise" -> [f EXCEPT !.gpt_content = AdvisorFallback]
      [] OTHER -> f

\* process_done_job: chatgpt_consolidation(job) catches every Exception and
\* writes gpt_content only; then sq.add_job(step + 1, job) and sq.snapshot()
AdvHandle(outcome) ==
    /\ apc = "handle"
    /\ jobf' = [jobf EXCEPT ![ajob] = ConsolidatedJob(@, outcome)]
    /\ LET r == SQAddJob(Self, N_STAGES - 1, ajob,
                          RequeuePriority(N_STAGES - 1))
       IN  /\ SetSelf(r.sq)
           /\ trail' = Trailed(trail, ajob, N_STAGES - 1, r.res)
           /\ apc' = IF r.res = "ok" THEN "idle" ELSE "dead"
           /\ disk' = IF r.res = "ok" THEN SnapshotFile(r.sq) ELSE disk
    /\ ajob' = NoJob
    /\ UNCHANGED <<cooldown, workspace, outs, workerVars, mainVars, updVars,
                   harnessVars>>

\* main: "while failed_tries < 10" and data = sq.get_done_job(step=5); when
\* the condition fails main() returns
MainTake ==
    /\ mpc = "loop"
    /\ IF failed_tries >= MaxFailedTries
       THEN /\ mpc' = "returned"
            /\ UNCHANGED <<sqVars, mjob>>
       ELSE LET r == SQGetDoneJob(Self, N_STAGES - 1)
            IN  /\ SetSelf(r.sq)
                /\ mpc' = CASE r.res = "job" -> "attempt"
                            [] r.res = "None" -> "loop"
                            [] OTHER -> "dead"
                /\ mjob' = r.job
    /\ UNCHANGED <<disk, jobVars, failed_tries, faults, delivered, workerVars,
                   advVars, updVars, harnessVars>>

\* a delivery that removes the directory of the job first
DeliveryStepsRmtreeFirst == <<"rmtree", "terminateJob", "snapshot">>

\* main: what follows a status of 200, in the order of the code
DeliverySteps == <<"terminateJob", "snapshot", "rmtree">>

\* main: the position after the call named pc
AfterDeliveryStep(pc) ==
    LET i == CHOOSE k \in 1 .. Len(DeliverySteps) : DeliverySteps[k] = pc
    IN  IF i = Len(DeliverySteps) THEN "loop" ELSE DeliverySteps[i + 1]

\* main: ipc_client.request("status") answers 200: failed_tries = 0 and the
\* payload is built
MainStatus ==
    /\ mpc = "attempt"
    /\ jobf[mjob].gpt_content # NoAttribute
    /\ failed_tries' = 0
    /\ mpc' = DeliverySteps[1]
    /\ UNCHANGED <<sqVars, disk, jobVars, mjob, faults, delivered, workerVars,
                   advVars, updVars, harnessVars>>

\* main: the status is 200 and building the payload raises AttributeError:
\* sq.clear() removes the file, sys.exit(1) raises SystemExit in main()
MainAttributeError ==
    /\ mpc = "attempt"
    /\ jobf[mjob].gpt_content = NoAttribute
    /\ failed_tries' = 0
    /\ disk' = NoFile
    /\ mpc' = "exited"
    /\ mjob' = NoJob
    /\ UNCHANGED <<sqVars, jobVars, faults, delivered, workerVars, advVars,
                   updVars, harnessVars>>

\* main: ipc_client.request("terminateJob", data=payload) succeeds
MainDeliver ==
    /\ mpc = "terminateJob"
    /\ delivered' = [delivered EXCEPT ![mjob] = @ + 1]
    /\ mpc' = AfterDeliveryStep("terminateJob")
    /\ mjob' = IF mpc' = "loop" THEN NoJob ELSE mjob
    /\ UNCHANGED <<sqVars, disk, jobVars, failed_tries, faults, workerVars,
                   advVars, updVars, harnessVars>>

\* main: sq.snapshot() after the delivery
MainSnapshot ==
    /\ mpc = "snapshot"
    /\ disk' = SnapshotFile(Self)
    /\ mpc' = AfterDeliveryStep("snapshot")
    /\ mjob' = IF mpc' = "loop" THEN NoJob ELSE mjob
    /\ UNCHANGED <<sqVars, jobVars, failed_tries, faults, delivered,
                   workerVars, advVars, updVars, harnessVars>>

\* main: shutil.rmtree(job.path, ignore_errors=True), then continue
MainRmtree ==
    /\ mpc = "rmtree"
    /\ workspace' = [workspace EXCEPT ![mjob] = FALSE]
    /\ mpc' = AfterDeliveryStep("rmtree")
    /\ mjob' = IF mpc' = "loop" THEN NoJob ELSE mjob
    /\ UNCHANGED <<sqVars, disk, jobf, trail, outs, failed_tries, faults,
                   delivered, workerVars, advVars, updVars, harnessVars>>

\* main: the delivery attempt fails: status is not 200, or a request raises
\* ClientConnectorError / ConnectionResetError; atStatus tells whether the
\* status request failed or, after a status of 200, the terminateJob one;
\* then sq.add_job(step, job)
\* a retry that hands the job back one step early
RetryStepBefore(step) == step - 1

\* main: sq.add_job(step, job) puts the job back at the step it came from
RetryStep(step) == step

MainFaultUpTo(atStatus, cap) ==
    /\ mpc = IF atStatus THEN "attempt" ELSE "terminateJob"
    /\ faults < cap
    /\ faults' = faults + 1
    /\ failed_tries' = failed_tries + 1
    /\ LET r == SQAddJob(Self, RetryStep(N_STAGES - 1), mjob,
                          RequeuePriority(RetryStep(N_STAGES - 1)))
       IN  /\ SetSelf(r.sq)
           /\ trail' = Trailed(trail, mjob, RetryStep(N_STAGES - 1), r.res)
           /\ mpc' = IF r.res = "ok" THEN "loop" ELSE "dead"
    /\ mjob' = NoJob
    /\ UNCHANGED <<disk, jobf, workspace, outs, delivered, workerVars,
                   advVars, updVars, harnessVars>>

MainFault(atStatus) == MainFaultUpTo(atStatus, MaxFaults)

\* the steps a message of the dispatcher names
IngressSteps == {0}

\* updater: listener.accept()
UpdaterAccept ==
    /\ upc = "accept"
    /\ upc' = "recv"
    /\ UNCHANGED <<sqVars, disk, jobVars, jobsIn, workerVars, advVars,
                   mainVars, harnessVars>>

\* updater: msg = conn.recv(); job = Job(...); sq.add_job(step, job,
\* priority); an exception closes the connection and reopens the listener
UpdaterRecv(step, priority) ==
    /\ upc = "recv"
    /\ jobsIn < MaxJobs
    /\ jobsIn' = jobsIn + 1
    /\ LET r == SQAddJob(Self, step, jobsIn + 1, priority)
       IN  /\ SetSelf(r.sq)
           /\ trail' = Trailed(trail, jobsIn + 1, step, r.res)
           /\ upc' = IF r.res = "ok" THEN "recv" ELSE "accept"
    /\ UNCHANGED <<disk, jobf, workspace, outs, workerVars, advVars,
                   mainVars, harnessVars>>

\* updater: conn.recv() raises ConnectionResetError or EOFError, or the
\* message does not load or lacks a key: each except block closes conn and
\* listener, and the outer loop makes a new Listener
UpdaterDisconnect ==
    /\ upc = "recv"
    /\ upc' = "accept"
    /\ UNCHANGED <<sqVars, disk, jobVars, jobsIn, workerVars, advVars,
                   mainVars, harnessVars>>

Next ==
    \/ \E w \in Workers : WorkerTake(w)
    \/ \E w \in Workers, o \in {"ok", "fail", "timeout", "raise"} :
           WorkerHandle(w, o)
    \/ AdvTake
    \/ \E o \in AdvisorOutcomes : AdvHandle(o)
    \/ MainTake
    \/ MainStatus
    \/ MainDeliver
    \/ MainSnapshot
    \/ MainRmtree
    \/ \E atStatus \in BOOLEAN : MainFault(atStatus)
    \/ UpdaterAccept
    \/ \E step \in IngressSteps, p \in SQPriorities : UpdaterRecv(step, p)
    \/ UpdaterDisconnect

Spec == BaseInit /\ [][Next]_vars

----------------------------------------------------------------------------
(* SpecDelivery: the loop of main() with a result sink that fails up to    *)
(* MaxDeliveryFaults times, fed by messages that name step 5; the worker   *)
(* threads are running and find nothing to do.                             *)

NextDelivery ==
    \/ UpdaterAccept
    \/ \E p \in SQPriorities : UpdaterRecv(N_STAGES - 1, p)
    \/ MainTake
    \/ MainStatus
    \/ MainDeliver
    \/ MainSnapshot
    \/ MainRmtree
    \/ \E atStatus \in BOOLEAN : MainFaultUpTo(atStatus, MaxDeliveryFaults)

SpecDelivery == BaseInit /\ [][NextDelivery]_vars

\* the threads main() started that have not ended
ThreadsAlive ==
    {<<"worker", w>> : w \in {v \in Workers : wpc[v] # "dead"}}
        \cup (IF apc # "dead" THEN {<<"worker_done_job", 0>>} ELSE {})
        \cup (IF upc # "dead" THEN {<<"updater", 0>>} ELSE {})

\* the interpreter exits when main() is over and every thread has ended;
\* its status is 1 when an exception or sys.exit(1) ended main(), 0 when
\* main() returned
ProcessExited == mpc \in {"returned", "dead", "exited"} /\ ThreadsAlive = {}
ExitCode == IF mpc \in {"dead", "exited"} THEN 1 ELSE 0

\* C13: when ten delivery attempts in a row have failed and the loop of
\* main() has ended, the process has terminated with exit code 1.
C13_TenFailuresExitOne ==
    (failed_tries >= MaxFailedTries /\ mpc = "returned") =>
        (ProcessExited /\ ExitCode = 1)

----------------------------------------------------------------------------
(* SpecIngress: the updater alone.  The dispatcher sends messages that     *)
(* name any step and one of the priorities tried, resets the connection,   *)
(* ends the stream, or sends what does not load or lacks a key (conn.recv  *)
(* or msg[...] raises before sq.add_job is called).  caught lists what the *)
(* except blocks caught, each entry with the jobs enqueued until then.     *)

\* exceptions the updater catches in SpecIngress
MaxIngressErrors == 2

\* updater: the except blocks, in the order of the code
IngressErrors == {"ConnectionResetError", "EOFError", "Exception"}

\* an updater without the block "except Exception"
UpdaterAfterNamedOnly(exc) == IF exc = "Exception" THEN "dead" ELSE "accept"

\* updater: where the thread is after the except block for exc: conn and
\* listener are closed and "while True" starts over
UpdaterAfter(exc) == "accept"

\* updater: an exception of class exc leaves conn.recv(), Job(...) or the
\* reading of msg["step"] / msg["priority"]
UpdaterCaught(exc) ==
    /\ upc = "recv"
    /\ Len(caught) < MaxIngressErrors
    /\ caught' = Append(caught, [exc |-> exc, jobsIn |-> jobsIn])
    /\ upc' = UpdaterAfter(exc)
    /\ UNCHANGED <<sqVars, disk, jobVars, jobsIn, workerVars, advVars,
                   mainVars, pqVars, apiVars, orig, origRet, phase, lockVars,
                   cmpVars>>

\* updater: listener.accept() raises AuthenticationError, the client
\* answered the challenge with another key; the call stands before the try
\* block, the exception leaves updater() and ends its thread
UpdaterAuthFail ==
    /\ upc = "accept"
    /\ upc' = "dead"
    /\ UNCHANGED <<sqVars, disk, jobVars, jobsIn, workerVars, advVars,
                   mainVars, harnessVars>>

NextIngress ==
    \/ UpdaterAccept
    \/ UpdaterAuthFail
    \/ \E step \in Stages, p \in SQPriorities : UpdaterRecv(step, p)
    \/ \E exc \in IngressErrors : UpdaterCaught(exc)

SpecIngress == BaseInit /\ [][NextIngress]_vars

\* C23: a connection reset, an end of stream or a message that cannot be
\* read leaves the updater at the top of its loop with a new listener
\* (never ended), enqueues no job and changes no queue; the listener can
\* accept again.
C23_IngressErrorReopens ==
    [][\A exc \in IngressErrors :
          UpdaterCaught(exc) =>
              /\ upc' = "accept"
              /\ queues' = queues
              /\ jobsIn' = jobsIn
              /\ trail' = trail]_vars

\* C37: a connection attempt that fails authentication leaves the updater
\* accepting connections: the listener goes back to accept and later
\* messages are still enqueued.
C37_AuthFailureKeepsIngress ==
    [][UpdaterAuthFail => upc' = "accept"]_vars

\* C23 witness: after a message that could not be read, the updater has
\* accepted a new connection and enqueued the job of a later message.
C23_Witness ==
    /\ upc = "recv"
    /\ \E i \in 1 .. Len(caught) :
           /\ caught[i].exc = "Exception"
           /\ caught[i].jobsIn < jobsIn
           /\ Held(queues, jobsIn) = 1

----------------------------------------------------------------------------
(* SpecLock: the StepQueue calls of the workers, the updater and main with *)
(* self._lock explicit.  A method is entered when the lock is free ("call" *)
(* becomes "in"), does its work and leaves the with block.  snapshot()     *)
(* opens the file, pickle.dump calls __getstate__ and then reads the step  *)
(* queues one after the other, and the file is closed before the lock is   *)
(* given back.  Between two calls a thread holds no lock: a worker runs    *)
(* the handler of the step, main talks to the result sink.  The fields of  *)
(* the jobs and what happens to a job at step 4 are not followed here.     *)

\* jobs the updater receives in SpecLock
MaxLockJobs == 1

\* the positions inside a with self._lock block
InPcs == {"in get_next_job", "in get_done_job", "in add_job", "in snapshot",
          "in pickle.dump"}

\* a lock that lets every thread in
LockNotTested(l) == TRUE

\* with self._lock: the thread goes on when nobody holds the lock
LockFree(l) == l = NoThread

\* a with block that keeps the lock when it is left
LockKept(t) == t

\* the end of a with self._lock block, by return or by an exception
LockReleased(t) == NoThread

\* with self._lock: at the top of a StepQueue method
LockEnter(t) ==
    /\ tpc[t] \in {"call get_next_job", "call get_done_job", "call add_job",
                   "call snapshot"}
    /\ LockFree(lock)
    /\ lock' = t
    /\ tpc' = [tpc EXCEPT ![t] =
                 CASE @ = "call get_next_job" -> "in get_next_job"
                   [] @ = "call get_done_job" -> "in get_done_job"
                   [] @ = "call add_job" -> "in add_job"
                   [] OTHER -> "in snapshot"]
    /\ UNCHANGED <<sqVars, disk, tjob, tstep, dump, jobVars, workerVars,
                   advVars, mainVars, updVars, obsVars, cmpVars, pqVars, apiVars,
                   orig, origRet, phase>>

\* worker: the body of sq.get_next_job() and its return
LockGetNextJob(t) ==
    /\ tpc[t] = "in get_next_job"
    /\ LET r == SQGetNextJob(Self)
       IN  /\ SetSelf(r.sq)
           /\ tpc' = [tpc EXCEPT ![t] =
                        CASE r.res = "job" -> "handle"
                          [] r.res = "None" -> "call get_next_job"
                          [] OTHER -> "dead"]
           /\ tjob' = [tjob EXCEPT ![t] = r.job]
           /\ tstep' = [tstep EXCEPT ![t] = IF r.res = "job" THEN r.stage ELSE 0]
    /\ lock' = LockReleased(t)
    /\ UNCHANGED <<disk, dump, jobVars, workerVars, advVars, mainVars,
                   updVars, obsVars, cmpVars, pqVars, apiVars, orig, origRet, phase>>

\* main: the body of sq.get_done_job(step=5) and its return
LockGetDoneJob(t) ==
    /\ tpc[t] = "in get_done_job"
    /\ LET r == SQGetDoneJob(Self, N_STAGES - 1)
       IN  /\ SetSelf(r.sq)
           /\ tpc' = [tpc EXCEPT ![t] =
                        CASE r.res = "job" -> "handle"
                          [] r.res = "None" -> "call get_done_job"
                          [] OTHER -> "dead"]
           /\ tjob' = [tjob EXCEPT ![t] = r.job]
           /\ tstep' = [tstep EXCEPT ![t] = IF r.res = "job" THEN r.stage ELSE 0]
    /\ lock' = LockReleased(t)
    /\ UNCHANGED <<disk, dump, jobVars, workerVars, advVars, mainVars,
                   updVars, obsVars, cmpVars, pqVars, apiVars, orig, origRet, phase>>

\* worker: process_job runs the handler of the step and goes on to
\* sq.add_job(step, job), or an exception ends the thread; main: the
\* attempt succeeds (sq.snapshot() is next, outcome "ok") or fails
\* (sq.add_job(step, job) is next)
LockHandle(t, outcome) ==
    /\ tpc[t] = "handle"
    /\ IF t = MainThread
       THEN /\ outcome \in {"ok", "fail"}
            /\ tpc' = [tpc EXCEPT ![t] = IF outcome = "ok" THEN "call snapshot"
                                         ELSE "call add_job"]
            /\ tjob' = [tjob EXCEPT ![t] = IF outcome = "ok" THEN NoJob ELSE @]
            /\ tstep' = tstep
       ELSE /\ outcome \in HandlerOutcomes(tstep[t])
            /\ tpc' = [tpc EXCEPT ![t] = IF outcome = "raise" THEN "dead"
                                         ELSE "call add_job"]
            /\ tjob' = [tjob EXCEPT ![t] = IF outcome = "raise" THEN NoJob ELSE @]
            /\ tstep' = [tstep EXCEPT ![t] = IF outcome = "raise" THEN 0
                                             ELSE NextStep(@, outcome)]
    /\ UNCHANGED <<sqVars, disk, lock, dump, jobVars, workerVars, advVars,
                   mainVars, updVars, obsVars, cmpVars, pqVars, apiVars, orig, origRet,
                   phase>>

\* updater: msg = conn.recv(); job = Job(...); sq.add_job(...) is next
LockUpdaterRecv(step) ==
    /\ tpc[UpdaterThread] = "recv"
    /\ jobsIn < MaxLockJobs
    /\ jobsIn' = jobsIn + 1
    /\ tjob' = [tjob EXCEPT ![UpdaterThread] = jobsIn + 1]
    /\ tstep' = [tstep EXCEPT ![UpdaterThread] = step]
    /\ tpc' = [tpc EXCEPT ![UpdaterThread] = "call add_job"]
    /\ UNCHANGED <<sqVars, disk, lock, dump, jobVars, workerVars, advVars,
                   mainVars, upc, obsVars, cmpVars, pqVars, apiVars, orig, origRet,
                   phase>>

\* the body of sq.add_job(step, job, priority) and its return: a worker
\* goes on to sq.snapshot(), main to its next poll, the updater to its
\* next message (through a new listener when the call raised)
LockAddJob(t, priority) ==
    /\ tpc[t] = "in add_job"
    /\ priority \in (IF t = UpdaterThread THEN SQPriorities
                     ELSE {DefaultPriority})
    /\ LET r == SQAddJob(Self, tstep[t], tjob[t], priority)
       IN  /\ SetSelf(r.sq)
           /\ tpc' = [tpc EXCEPT ![t] =
                        CASE t = UpdaterThread -> "recv"
                          [] r.res # "ok" -> "dead"
                          [] t = MainThread -> "call get_done_job"
                          [] OTHER -> "call snapshot"]
    /\ tjob' = [tjob EXCEPT ![t] = NoJob]
    /\ tstep' = [tstep EXCEPT ![t] = 0]
    /\ lock' = LockReleased(t)
    /\ UNCHANGED <<disk, dump, jobVars, workerVars, advVars, mainVars,
                   updVars, obsVars, cmpVars, pqVars, apiVars, orig, origRet, phase>>

\* snapshot(): open(..., "wb") empties the file; pickle.dump(self, file)
\* starts with __getstate__, a copy of the instance dictionary
LockOpen(t) ==
    /\ tpc[t] = "in snapshot"
    /\ disk' = EmptyFile
    /\ dump' = [dump EXCEPT ![t] = [open |-> TRUE, pause |-> pause,
                                    pause_done |-> pause_done, read |-> <<>>]]
    /\ tpc' = [tpc EXCEPT ![t] = "in pickle.dump"]
    /\ UNCHANGED <<sqVars, lock, tjob, tstep, jobVars, workerVars, advVars,
                   mainVars, updVars, obsVars, cmpVars, pqVars, apiVars, orig, origRet,
                   phase>>

\* snapshot(): pickle.dump reads the next PriorityQueue of self._queues
LockDump(t) ==
    /\ tpc[t] = "in pickle.dump"
    /\ Len(dump[t].read) < N_STAGES
    /\ dump' = [dump EXCEPT ![t].read = Append(@, queues[Len(@)])]
    /\ disk' = TruncatedFile
    /\ UNCHANGED <<sqVars, lock, tpc, tjob, tstep, jobVars, workerVars,
                   advVars, mainVars, updVars, obsVars, cmpVars, pqVars, apiVars, orig,
                   origRet, phase>>

\* the object pickle.dump has written: the copied dictionary with the
\* queues as they were read
Dumped(d) ==
    SnapshotFile([queues |-> [s \in Stages |-> d.read[s + 1]],
                  pause |-> d.pause, pause_done |-> d.pause_done])

\* snapshot(): the file is closed and the with blocks are left
LockClose(t) ==
    /\ tpc[t] = "in pickle.dump"
    /\ Len(dump[t].read) = N_STAGES
    /\ disk' = Dumped(dump[t])
    /\ dump' = [dump EXCEPT ![t] = NoDump]
    /\ tpc' = [tpc EXCEPT ![t] = FirstCall(t)]
    /\ lock' = LockReleased(t)
    /\ UNCHANGED <<sqVars, tjob, tstep, jobVars, workerVars, advVars,
                   mainVars, updVars, obsVars, cmpVars, pqVars, apiVars, orig, origRet,
                   phase>>

NextLock ==
    \/ \E t \in LockThreads : LockEnter(t)
    \/ \E t \in LockThreads : LockGetNextJob(t)
    \/ \E t \in LockThreads : LockGetDoneJob(t)
    \/ \E t \in LockThreads, o \in {"ok", "fail", "timeout", "raise"} :
           LockHandle(t, o)
    \/ \E step \in IngressSteps : LockUpdaterRecv(step)
    \/ \E t \in LockThreads, p \in SQPriorities : LockAddJob(t, p)
    \/ \E t \in LockThreads : LockOpen(t)
    \/ \E t \in LockThreads : LockDump(t)
    \/ \E t \in LockThreads : LockClose(t)

SpecLock == BaseInit /\ [][NextLock]_vars

\* the threads between open(...) and the end of snapshot()
Writing == {t \in LockThreads : tpc[t] = "in pickle.dump"}

\* C28: what snapshot() has written when it returns is the whole queue
\* state of that moment, no call of another thread changes the queues or
\* the flags while a snapshot is being written, and no two threads write
\* a snapshot at the same time.
C28_SnapshotOneInstant ==
    [][/\ \A t \in LockThreads : LockClose(t) => disk' = SnapshotFile(Self)
       /\ Writing # {} => sqVars' = sqVars
       /\ Cardinality(Writing) <= 1]_vars

\* C28 witness: a thread is in the middle of pickle.dump, it holds the
\* lock, while a second one has a job to enqueue and a third wants to
\* take one.
C28_Witness ==
    \E t \in LockThreads, u \in LockThreads, v \in LockThreads :
        /\ tpc[t] = "in pickle.dump" /\ Len(dump[t].read) = 1 /\ lock = t
        /\ tpc[u] = "call add_job" /\ tjob[u] # NoJob
        /\ tpc[v] = "call get_next_job"

\* C29: the lock is held only by a thread that is inside a StepQueue
\* method: a worker in a stage handler (and main in its delivery attempt)
\* holds no lock, so the calls of the other threads go on.
C29_NoLockInHandler ==
    /\ \A t \in LockThreads : lock = t => tpc[t] \in InPcs
    /\ \A t \in LockThreads : tpc[t] = "handle" => lock # t

\* C29 witness: while one worker is in a handler, another thread is
\* inside a StepQueue method, holding the lock.
C29_Witness ==
    \E w \in Workers, t \in LockThreads :
        /\ tpc[w] = "handle"
        /\ t # w /\ lock = t /\ tpc[t] \in InPcs

----------------------------------------------------------------------------
(* SpecCompare: compare_results over the outputs of a test case.  A text is *)
(* the sequence of its characters.  The alphabet has a letter in both     *)
(* cases and two characters that are not word characters, one of them the *)
(* line break that result.split("\n") and "\n".join(...) work on.          *)

\* characters of the output of the program under test
MaxTextLen == 4

Chars == {"a", "A", "-", "\n"}

\* \w of the regular expression
IsWord(c) == c \in {"a", "A"}

\* re.IGNORECASE: the characters are compared without their case
Lower(c) == IF c = "A" THEN "a" ELSE c

\* obtained_lines = result.split("\n")
RECURSIVE Split(_)
Split(text) ==
    LET breaks == {i \in 1 .. Len(text) : text[i] = "\n"}
    IN  IF breaks = {}
        THEN <<text>>
        ELSE LET i == CHOOSE b \in breaks : \A c \in breaks : b <= c
             IN  <<SubSeq(text, 1, i - 1)>>
                 \o Split(SubSeq(text, i + 1, Len(text)))

\* "\n".join(obtained_lines)
RECURSIVE Join(_)
Join(lines) ==
    IF lines = <<>> THEN <<>>
    ELSE IF Len(lines) = 1 THEN lines[1]
    ELSE lines[1] \o <<"\n">> \o Join(Tail(lines))

\* the positions where (?<!\w)line(?!\w) matches text, re.IGNORECASE
Matches(line, text) ==
    {p \in 1 .. Len(text) + 1 :
        /\ p + Len(line) - 1 <= Len(text)
        /\ \A k \in 1 .. Len(line) : Lower(text[p + k - 1]) = Lower(line[k])
        /\ p = 1 \/ ~IsWord(text[p - 1])
        /\ p + Len(line) > Len(text) \/ ~IsWord(text[p + Len(line)])}

\* a loop that leaves the match in the text
RECURSIVE compare_loop_keep(_, _)
compare_loop_keep(exp, text) ==
    IF exp = <<>> THEN TRUE
    ELSE IF Matches(Head(exp), text) = {} THEN FALSE
    ELSE compare_loop_keep(Tail(exp), text)

\* the for loop of compare_results: re.search finds the leftmost match,
\* len(line) characters are cut out of the text at found.start()
RECURSIVE compare_loop(_, _)
compare_loop(exp, text) ==
    IF exp = <<>> THEN TRUE
    ELSE LET line  == Head(exp)
             found == Matches(line, text)
         IN  IF found = {} THEN FALSE
             ELSE LET target_index == CHOOSE p \in found :
                                          \A q \in found : p <= q
                  IN  compare_loop(Tail(exp),
                          SubSeq(text, 1, target_index - 1)
                          \o SubSeq(text, target_index + Len(line),
                                    Len(text)))

compare_results(exp, obtained_lines) ==
    compare_loop(exp, Join(obtained_lines))

\* the test cases and outputs that are tried: an output of at most
\* MaxTextLen characters and expected values that can all be found in it,
\* as many as half its length and each as long as half its length
CompareInputs ==
    LET UpTo(n) == UNION {[1 .. k -> Chars] : k \in 0 .. n}
        Values  == UpTo(MaxTextLen \div 2)
    IN  (UNION {[1 .. k -> Values] : k \in 0 .. (MaxTextLen \div 2)})
        \X UpTo(MaxTextLen)

CompareInit ==
    /\ IdleInit
    /\ \E input \in CompareInputs :
           expected = input[1] /\ result = input[2]
    /\ verdict = "none"

\* test_program: obtained_lines = result.split("\n") and the call
CompareCall ==
    /\ verdict = "none"
    /\ verdict' = IF compare_results(expected, Split(result)) THEN "True"
                  ELSE "False"
    /\ UNCHANGED <<expected, result, sqVars, snapVars, pqVars, apiVars,
                   jobVars, workerVars, advVars, mainVars, updVars, obsVars,
                   lockVars>>

SpecCompare == CompareInit /\ [][CompareCall]_vars

\* the text that remains when the first occurrence of each of the first k
\* expected values has been taken out of it
RECURSIVE Remaining(_, _, _)
Remaining(exp, text, k) ==
    IF k = 0 THEN text
    ELSE LET t  == Remaining(exp, text, k - 1)
             ps == Matches(exp[k], t)
         IN  IF ps = {} THEN t
             ELSE LET p == CHOOSE q \in ps : \A r \in ps : q <= r
                  IN  [i \in 1 .. Len(t) - Len(exp[k]) |->
                          IF i < p THEN t[i] ELSE t[i + Len(exp[k])]]

\* v is found at two places of text that do not overlap; bounded asks for
\* non-word characters around each of them
TwoOccurrences(v, text, bounded) ==
    LET at == IF bounded THEN Matches(v, text)
              ELSE {p \in 1 .. Len(text) + 1 :
                      /\ p + Len(v) - 1 <= Len(text)
                      /\ \A k \in 1 .. Len(v) :
                            \/ text[p + k - 1] = v[k]
                            \/ {text[p + k - 1], v[k]} = {"a", "A"}}
    IN  \E p \in at, q \in at : p + Len(v) <= q

\* compare_results returns true iff every expected value, in the order of
\* the list, occurs in what remains of the output
FoundInOrder ==
    (verdict = "True") <=>
        \A k \in 1 .. Len(expected) :
            Matches(expected[k], Remaining(expected, result, k - 1)) # {}

\* C30 as stated: ... and an expected value that is listed twice and found
\* twice occurs at two places of the output that do not overlap (with or
\* without non-word characters around them).
C30_AsStated ==
    verdict # "none" =>
        /\ FoundInOrder
        /\ \A i \in 1 .. Len(expected), j \in 1 .. Len(expected) :
              (verdict = "True" /\ i < j /\ expected[i] = expected[j])
                  => TwoOccurrences(expected[i], result, FALSE)

\* C30: compare_results returns true iff every expected value, in the
\* order of the list, has a case-insensitive occurrence bounded by
\* non-word characters in what remains of the output when the first match
\* of every earlier value has been removed; a value that is not empty, is
\* made of word characters only and is listed twice needs two separate
\* such occurrences in the output.
C30_CompareResults ==
    verdict # "none" =>
        /\ FoundInOrder
        /\ \A i \in 1 .. Len(expected), j \in 1 .. Len(expected) :
              (/\ verdict = "True" /\ i < j /\ expected[i] = expected[j]
               /\ expected[i] # <<>>
               /\ \A k \in 1 .. Len(expected[i]) : IsWord(expected[i][k]))
                  => TwoOccurrences(expected[i], result, TRUE)

\* C30 witness: the value "A" is expected twice and is found twice in an
\* output that has it in the other case, once at the end of a line and
\* once next to a dash.
C30_Witness ==
    /\ verdict = "True"
    /\ expected = << <<"A">>, <<"A">> >>
    /\ result = <<"a", "\n", "-", "a">>

----------------------------------------------------------------------------
(* SpecRun: the process after the updater has enqueued MaxRunJobs jobs at   *)
(* step 0, one message after the other, and no further message comes.  No  *)
(* stage handler raises and the result sink answers every request with     *)
(* status 200.  FairRun adds weak fairness of every thread of the process. *)

\* the jobs the updater has enqueued
MaxRunJobs == 2

RunInit ==
    /\ pq = <<>>
    /\ pqRet = [op |-> "none", job |-> NoJob, priority |-> 0, res |-> "none", n |-> 0]
    /\ \E prio \in [1 .. MaxRunJobs -> SQPriorities] :
           LET after[k \in 0 .. MaxRunJobs] ==
                   IF k = 0
                   THEN [queues |-> EmptyQueues, pause |-> FALSE,
                         pause_done |-> FALSE]
                   ELSE SQAddJob(after[k - 1], 0, k, prio[k]).sq
           IN  /\ queues = after[MaxRunJobs].queues
               /\ pause = after[MaxRunJobs].pause
               /\ pause_done = after[MaxRunJobs].pause_done
    /\ ret = NoCall
    /\ enq = [j \in 1 .. MaxSQJobs |-> 0]
    /\ taken = [j \in 1 .. MaxSQJobs |-> 0]
    /\ disk = NoFile
    /\ orig = [queues |-> EmptyQueues, pause |-> FALSE, pause_done |-> FALSE]
    /\ origRet = NoCall
    /\ phase = "live"
    /\ jobsIn = MaxRunJobs
    /\ jobf = [j \in 1 .. MaxRunJobs |-> NewJob]
    /\ workspace = [j \in 1 .. MaxRunJobs |-> TRUE]
    /\ trail = [j \in 1 .. MaxRunJobs |-> <<0>>]
    /\ outs = [j \in 1 .. MaxRunJobs |-> <<>>]
    /\ wpc = [w \in Workers |-> "idle"]
    /\ wjob = [w \in Workers |-> NoJob]
    /\ wstep = [w \in Workers |-> 0]
    /\ apc = "idle"
    /\ ajob = NoJob
    /\ cooldown = 0
    /\ mpc = "loop"
    /\ mjob = NoJob
    /\ failed_tries = 0
    /\ faults = 0
    /\ upc = "recv"
    /\ delivered = [j \in 1 .. MaxRunJobs |-> 0]
    /\ caught = <<>>
    /\ lock = NoThread
    /\ tpc = [t \in LockThreads |-> FirstCall(t)]
    /\ tjob = [t \in LockThreads |-> NoJob]
    /\ tstep = [t \in LockThreads |-> 0]
    /\ dump = [t \in LockThreads |-> NoDump]
    /\ expected = <<>>
    /\ result = <<>>
    /\ verdict = "none"

\* the steps of one worker thread, its handlers returning
WorkerRun(w) ==
    \/ WorkerTake(w)
    \/ \E o \in {"ok", "fail", "timeout"} : WorkerHandle(w, o)

NextRun ==
    \/ \E w \in Workers : WorkerRun(w)
    \/ AdvTake
    \/ \E o \in AdvisorOutcomes : AdvHandle(o)
    \/ MainTake
    \/ MainStatus
    \/ MainDeliver
    \/ MainSnapshot
    \/ MainRmtree

SpecRun == RunInit /\ [][NextRun]_vars

\* every thread of the process keeps running
FairRun ==
    /\ SpecRun
    /\ \A w \in Workers : WF_vars(WorkerRun(w))
    /\ WF_vars(AdvTake \/ \E o \in AdvisorOutcomes : AdvHandle(o))
    /\ WF_vars(MainTake \/ MainStatus \/ MainDeliver \/ MainSnapshot
                 \/ MainRmtree)

\* C31: once a snapshot has been written, a process killed now and started
\* again finds every job that has not been delivered in a step queue of
\* the StepQueue it restores (all the jobs were enqueued before any
\* snapshot), a job in the hands of a worker included.
C31_RestartFindsEveryJob ==
    Complete(disk) =>
        \A j \in 1 .. MaxRunJobs :
            delivered[j] = 0 => Held(NewStepQueue(disk).queues, j) >= 1

\* C34: every job is eventually delivered and the six step queues end up
\* empty for good.
C34_AllDeliveredQueuesEmpty ==
    <>[](/\ \A j \in 1 .. MaxRunJobs : delivered[j] = 1
         /\ queues = EmptyQueues)

----------------------------------------------------------------------------
(* SpecAdvisory: the last two steps with the test of sq.pause_done at the  *)
(* top of the loop of worker_done_job.  Each worker holds a job it took    *)
(* from step 1 (the jobs came one after the other and never shared a       *)
(* queue); every compilation fails, which hands the job on to step 4;     *)
(* main delivers what reaches step 5.  FairAdvisory adds weak fairness of  *)
(* the worker_done_job thread.                                             *)

\* worker_done_job: "if cooldown < 3"
MaxCooldown == 3

AdvisoryInit ==
    /\ pq = <<>>
    /\ pqRet = [op |-> "none", job |-> NoJob, priority |-> 0, res |-> "none", n |-> 0]
    /\ queues = EmptyQueues
    /\ pause = FALSE
    /\ pause_done \in BOOLEAN
    /\ ret = NoCall
    /\ enq = [j \in 1 .. MaxSQJobs |-> 0]
    /\ taken = [j \in 1 .. MaxSQJobs |-> 0]
    /\ disk = SnapshotFile([queues |-> [EmptyQueues EXCEPT ![1] =
                                           << <<DefaultPriority, NWorkers>> >>],
                            pause |-> FALSE, pause_done |-> FALSE])
    /\ orig = [queues |-> EmptyQueues, pause |-> FALSE, pause_done |-> FALSE]
    /\ origRet = NoCall
    /\ phase = "live"
    /\ jobsIn = NWorkers
    /\ jobf = [j \in Workers |-> NewJob]
    /\ workspace = [j \in Workers |-> TRUE]
    /\ trail = [j \in Workers |-> <<0, 1>>]
    /\ outs = [j \in Workers |-> <<"ok">>]
    /\ wpc = [w \in Workers |-> "handle"]
    /\ wjob = [w \in Workers |-> w]
    /\ wstep = [w \in Workers |-> 1]
    /\ apc = "idle"
    /\ ajob = NoJob
    /\ cooldown = 0
    /\ mpc = "loop"
    /\ mjob = NoJob
    /\ failed_tries = 0
    /\ faults = 0
    /\ upc = "recv"
    /\ delivered = [j \in Workers |-> 0]
    /\ caught = <<>>
    /\ lock = NoThread
    /\ tpc = [t \in LockThreads |-> FirstCall(t)]
    /\ tjob = [t \in LockThreads |-> NoJob]
    /\ tstep = [t \in LockThreads |-> 0]
    /\ dump = [t \in LockThreads |-> NoDump]
    /\ expected = <<>>
    /\ result = <<>>
    /\ verdict = "none"

\* worker_done_job: sq.pause_done is set and cooldown < 3: sleep, count, and
\* continue without a call of get_done_job
AdvSkip ==
    /\ apc = "idle"
    /\ pause_done
    /\ cooldown < MaxCooldown
    /\ cooldown' = cooldown + 1
    /\ UNCHANGED <<sqVars, disk, apc, ajob, jobVars, workerVars, mainVars,
                   updVars, harnessVars>>

\* worker_done_job: sq.pause_done is off, or cooldown has reached 3: the
\* loop goes on to sq.get_done_job(step=4)
AdvPoll == (pause_done => cooldown >= MaxCooldown) /\ AdvTake

NextAdvisory ==
    \/ \E w \in Workers : WorkerTake(w)
    \/ \E w \in Workers : WorkerHandle(w, "fail")
    \/ AdvSkip
    \/ AdvPoll
    \/ \E o \in AdvisorOutcomes : AdvHandle(o)
    \/ MainTake
    \/ MainStatus
    \/ MainDeliver
    \/ MainSnapshot
    \/ MainRmtree

SpecAdvisory == AdvisoryInit /\ [][NextAdvisory]_vars

\* the worker_done_job thread keeps running
FairAdvisory ==
    /\ SpecAdvisory
    /\ WF_vars(AdvSkip \/ AdvPoll \/ \E o \in AdvisorOutcomes : AdvHandle(o))

\* C33: worker_done_job never skips more than three iterations in a row on
\* sq.pause_done, and a job that waits at step 4 is eventually taken by
\* worker_done_job.
C33_WaitingJobIsTaken ==
    /\ [](cooldown <= MaxCooldown)
    /\ \A j \in Workers :
           (CountIn(queues[N_STAGES - 2], j) >= 1) ~> (ajob = j)

----------------------------------------------------------------------------
(* SpecPayload: the process is started over a snapshot that a version of   *)
(* the program without Job.gpt_content wrote: two jobs wait, each at one   *)
(* of the last three steps, and neither has the attribute                  *)
(* (chatgpt_consolidation gives it to a job that passes step 4).  The      *)
(* updater waits for its dispatcher.                                       *)

\* the jobs in that snapshot
MaxPayloadJobs == 2

PayloadInit ==
    /\ pq = <<>>
    /\ pqRet = [op |-> "none", job |-> NoJob, priority |-> 0, res |-> "none", n |-> 0]
    /\ \E s1 \in (N_STAGES - 3) .. (N_STAGES - 1),
          s2 \in (N_STAGES - 3) .. (N_STAGES - 1) :
           queues = [t \in Stages |->
                        (IF t = s1 THEN << <<DefaultPriority, 1>> >> ELSE <<>>)
                        \o (IF t = s2 THEN << <<DefaultPriority, 2>> >>
                            ELSE <<>>)]
    /\ pause = FALSE
    /\ pause_done = FALSE
    /\ ret = NoCall
    /\ enq = [j \in 1 .. MaxSQJobs |-> 0]
    /\ taken = [j \in 1 .. MaxSQJobs |-> 0]
    /\ disk = SnapshotFile(Self)
    /\ orig = [queues |-> EmptyQueues, pause |-> FALSE, pause_done |-> FALSE]
    /\ origRet = NoCall
    /\ phase = "live"
    /\ jobsIn = 0
    /\ jobf = [j \in 1 .. MaxPayloadJobs |->
                  [NewJob EXCEPT !.gpt_content = NoAttribute]]
    /\ workspace = [j \in 1 .. MaxPayloadJobs |-> TRUE]
    /\ trail = [j \in 1 .. MaxPayloadJobs |-> <<>>]
    /\ outs = [j \in 1 .. MaxPayloadJobs |-> <<>>]
    /\ wpc = [w \in Workers |-> "idle"]
    /\ wjob = [w \in Workers |-> NoJob]
    /\ wstep = [w \in Workers |-> 0]
    /\ apc = "idle"
    /\ ajob = NoJob
    /\ cooldown = 0
    /\ mpc = "loop"
    /\ mjob = NoJob
    /\ failed_tries = 0
    /\ faults = 0
    /\ upc = "accept"
    /\ delivered = [j \in 1 .. MaxPayloadJobs |-> 0]
    /\ caught = <<>>
    /\ lock = NoThread
    /\ tpc = [t \in LockThreads |-> FirstCall(t)]
    /\ tjob = [t \in LockThreads |-> NoJob]
    /\ tstep = [t \in LockThreads |-> 0]
    /\ dump = [t \in LockThreads |-> NoDump]
    /\ expected = <<>>
    /\ result = <<>>
    /\ verdict = "none"

NextPayload ==
    \/ \E w \in Workers : WorkerTake(w)
    \/ \E w \in Workers, o \in {"ok", "fail", "timeout", "raise"} :
           WorkerHandle(w, o)
    \/ AdvTake
    \/ \E o \in AdvisorOutcomes : AdvHandle(o)
    \/ MainTake
    \/ MainStatus
    \/ MainAttributeError
    \/ MainDeliver
    \/ MainSnapshot
    \/ MainRmtree
    \/ \E atStatus \in BOOLEAN : MainFault(atStatus)

SpecPayload == PayloadInit /\ [][NextPayload]_vars

\* C22: once building the payload has failed for a missing field, the
\* snapshot file is gone and stays gone, and the process has ended with
\* exit code 1: no thread of it is left running.
C22_MissingFieldEndsProcess ==
    mpc = "exited" => (disk = NoFile /\ ProcessExited /\ ExitCode = 1)

----------------------------------------------------------------------------
(* Properties of the process *)

Jobs == 1 .. MaxJobs

\* the threads that hold job j between a take and the add_job or the
\* delivery that follows it
Holders(j) ==
    {<<"worker", w>> :
        w \in {v \in Workers : wpc[v] = "handle" /\ wjob[v] = j}}
        \cup (IF apc = "handle" /\ ajob = j
              THEN {<<"worker_done_job", 0>>} ELSE {})
        \cup (IF mpc \notin {"loop", "returned", "dead", "exited"} /\ mjob = j
              THEN {<<"main", 0>>} ELSE {})

\* the main thread has ended with an exception
ProcessFailed == mpc = "dead"

\* C1: every job the updater has enqueued has one payload delivered
\* (never two) or is still on its way to it (waiting in a step queue or
\* in the hands of the thread that took it), unless the process has failed:
\* no job is silently dropped while the process runs.
C1_NoJobSilentlyDropped ==
    \A j \in 1 .. jobsIn :
        /\ delivered[j] <= 1
        /\ \/ ProcessFailed
           \/ delivered[j] = 1
           \/ Held(queues, j) + Cardinality(Holders(j)) >= 1

\* C3: under every interleaving of the threads each job is in at most one
\* step queue, and a job a take has returned is in no queue and in no other
\* thread's hands until it is enqueued again.
C3_JobInOnePlace ==
    \A j \in Jobs : Held(queues, j) + Cardinality(Holders(j)) <= 1

\* C3 witness: a worker holds a job it took from a later step (the job has
\* been enqueued again at least once) and another thread's get_next_job
\* found nothing since.
C3_Witness ==
    \E w \in Workers :
        /\ wpc[w] = "handle" /\ wjob[w] # NoJob /\ wstep[w] >= 1
        /\ pause
        /\ Held(queues, wjob[w]) = 0

\* C4: when the handler of a step raises, the job the worker took is put
\* in the queue of step 5 with an error text; and whenever a worker is done
\* with a job it took, the job is in a step queue again.
C4_WorkerAlwaysReenqueues ==
    [][\A w \in Workers :
          /\ WorkerHandle(w, "raise")
                => /\ CountIn(queues'[N_STAGES - 1], wjob[w]) = 1
                   /\ jobf'[wjob[w]].text # ""
          /\ (wpc[w] = "handle" /\ wpc'[w] # "handle")
                => Held(queues', wjob[w]) = 1]_vars

\* C5: the three worker threads are alive in every state of the process.
C5_ThreeLiveWorkers ==
    Cardinality({w \in Workers : wpc[w] # "dead"}) = NWorkers

\* the steps a job passes when every handler succeeds, up to length n; a
\* delivery retry adds another 5
SuccessTrail(n) == [i \in 1 .. n |-> IF i <= N_STAGES - 2 THEN i - 1
                                     ELSE N_STAGES - 1]

AllOk(j) == \A i \in 1 .. Len(outs[j]) : outs[j][i] = "ok"

\* a worker has ended process_job for the job it held by returning
Handled(w) ==
    /\ wpc[w] = "handle" /\ wpc'[w] # "handle"
    /\ outs'[wjob[w]][Len(outs'[wjob[w]])] # "raise"

\* C14: a failed delivery attempt (status not 200, or the request raises)
\* puts the job back in the queue of step 5, records no delivery and
\* leaves the directory of the job in place.
C14_FailedDeliveryRequeues ==
    [][\A atStatus \in BOOLEAN :
          MainFault(atStatus) =>
              /\ CountIn(queues'[N_STAGES - 1], mjob) = 1
              /\ Held(queues', mjob) = 1
              /\ delivered' = delivered
              /\ workspace'[mjob]]_vars

\* C14 witness: after a failed attempt the job waits at step 5 again,
\* undelivered, its directory in place.
C14_Witness ==
    \E j \in Jobs :
        /\ faults >= 1 /\ mpc = "loop"
        /\ CountIn(queues[N_STAGES - 1], j) = 1
        /\ delivered[j] = 0 /\ workspace[j]
        /\ Len(trail[j]) >= 2 /\ trail[j][Len(trail[j]) - 1] = N_STAGES - 1

\* C15: after a status of 200 the loop calls terminateJob, then snapshot,
\* then rmtree; no directory is removed before the payload of its job was
\* sent, and a delivered job is in no step queue.
C15_DeliverSnapshotDelete ==
    [][/\ MainStatus => mpc' = "terminateJob"
       /\ MainDeliver => mpc' = "snapshot"
       /\ MainSnapshot => (delivered[mjob] >= 1 /\ workspace[mjob]
                           /\ mpc' = "rmtree")
       /\ MainRmtree => (delivered[mjob] >= 1 /\ mpc' = "loop")
       /\ \A j \in Jobs :
             /\ ~workspace'[j] => delivered'[j] >= 1
             /\ delivered'[j] >= 1 => Held(queues', j) = 0]_vars

\* C15 witness: a job has been delivered, the snapshot written and the
\* directory removed, and the loop is polling again.
C15_Witness ==
    \E j \in Jobs :
        /\ delivered[j] = 1 /\ ~workspace[j]
        /\ Complete(disk) /\ mpc = "loop" /\ mjob = NoJob

\* C16: a job whose handlers have all succeeded has been enqueued at the
\* steps 0, 1, 2, 3, 5 in that order (as far as it has come), never at
\* step 4, is not broken, and is delivered only after all four handlers.
C16_SuccessPath ==
    \A j \in 1 .. jobsIn :
        AllOk(j) =>
            /\ trail[j] = SuccessTrail(Len(trail[j]))
            /\ ~jobf[j].broken
            /\ delivered[j] >= 1 =>
                  (Len(outs[j]) = N_STAGES - 2 /\ Len(trail[j]) >= N_STAGES - 1)

\* C16 witness: a job went through all four handlers and was delivered.
C16_Witness ==
    \E j \in Jobs :
        /\ AllOk(j) /\ Len(outs[j]) = N_STAGES - 2
        /\ delivered[j] = 1

\* C17 as the specification states it: a job a handler has left broken is
\* put in the queue of step 4.
C17_BrokenGoesToAdvisory ==
    [][\A w \in Workers :
          (Handled(w) /\ jobf'[wjob[w]].broken)
              => CountIn(queues'[N_STAGES - 2], wjob[w]) = 1]_vars

\* C17 as the code has it: a job a handler has left broken is put in the
\* queue of step 4 (failed compilation, failed test) or of step 5 (project
\* files not generated, test timeout), never in that of a step 0-3.
C17_BrokenLeavesNormalSteps ==
    [][\A w \in Workers :
          (Handled(w) /\ jobf'[wjob[w]].broken)
              => /\ \A s \in NormalStages : CountIn(queues'[s], wjob[w]) = 0
                 /\ LET last == outs'[wjob[w]][Len(outs'[wjob[w]])]
                        to == IF wstep[w] = 0 \/ last = "timeout"
                              THEN N_STAGES - 1 ELSE N_STAGES - 2
                    IN  CountIn(queues'[to], wjob[w]) = 1]_vars

\* C17 witness: a job broken by a failed compilation or test waits at
\* step 4.
C17_Witness ==
    \E j \in Jobs :
        /\ jobf[j].broken
        /\ CountIn(queues[N_STAGES - 2], j) = 1

\* C18: no step of any thread takes broken from true back to false.
C18_BrokenMonotonic ==
    [][\A j \in Jobs : jobf[j].broken => jobf'[j].broken]_vars

\* C18 witness: a broken job has passed the advisory step and a delivery
\* retry and has been delivered.
C18_Witness ==
    \E j \in Jobs :
        /\ jobf[j].broken /\ delivered[j] = 1
        /\ \E i \in 1 .. Len(trail[j]) : trail[j][i] = N_STAGES - 2
        /\ faults >= 1

\* C19: a test run that exceeds its timeout at step 2 leaves the job
\* broken with the took-too-long text and in the queue of step 5; the job
\* was enqueued at steps 0, 1, 2, 5 and never at step 4.
C19_TimeoutSkipsAdvisory ==
    [][\A w \in Workers :
          WorkerHandle(w, "timeout") =>
              /\ jobf'[wjob[w]].broken
              /\ jobf'[wjob[w]].text = "took too long"
              /\ CountIn(queues'[N_STAGES - 1], wjob[w]) = 1
              /\ trail'[wjob[w]] = <<0, 1, 2, N_STAGES - 1>>]_vars

\* C19 witness: a job that timed out has been delivered.
C19_Witness ==
    \E j \in Jobs :
        /\ Len(outs[j]) = 3 /\ outs[j][3] = "timeout"
        /\ delivered[j] = 1 /\ jobf[j].broken

\* C20: when process_job is done with a job at step 0, the job is in the
\* queue of step 1 (the project files were generated), or else broken,
\* with a message, in the queue of step 5.
C20_StageZeroRouting ==
    [][\A w \in Workers :
          (wpc[w] = "handle" /\ wstep[w] = 0 /\ wpc'[w] # "handle") =>
              LET j == wjob[w]
                  last == outs'[j][Len(outs'[j])]
              IN  IF last = "ok"
                  THEN CountIn(queues'[1], j) = 1 /\ ~jobf'[j].broken
                  ELSE /\ CountIn(queues'[N_STAGES - 1], j) = 1
                       /\ jobf'[j].broken /\ jobf'[j].text # ""]_vars

\* C21: whatever the completion request does, worker_done_job leaves broken
\* as it was, puts the job in the queue of step 5, and when the request
\* failed the advisory text is the fallback text.
C21_AdvisoryKeepsBroken ==
    [][\A o \in AdvisorOutcomes :
          AdvHandle(o) =>
              /\ jobf'[ajob].broken = jobf[ajob].broken
              /\ jobf'[ajob].text = jobf[ajob].text
              /\ (o = "raise" => jobf'[ajob].gpt_content = AdvisorFallback)
              /\ CountIn(queues'[N_STAGES - 1], ajob) = 1
              /\ Held(queues', ajob) = 1]_vars

\* C21 witness: a broken job whose completion request failed waits at
\* step 5 with the fallback text, still broken.
C21_Witness ==
    \E j \in Jobs :
        /\ jobf[j].broken /\ jobf[j].gpt_content = AdvisorFallback
        /\ CountIn(queues[N_STAGES - 1], j) = 1
        /\ Len(trail[j]) >= 2 /\ trail[j][Len(trail[j]) - 1] = N_STAGES - 2

\* C35: the steps a job is enqueued at never decrease: each enqueue after
\* the first is at a later step than the one before, except the delivery
\* retry, which repeats step 5; so no step of 0-4 occurs twice for a job.
C35_StagesNeverDecrease ==
    \A j \in Jobs :
        /\ \A i \in 1 .. Len(trail[j]) - 1 :
              \/ trail[j][i] < trail[j][i + 1]
              \/ trail[j][i] = N_STAGES - 1 /\ trail[j][i + 1] = N_STAGES - 1
        /\ \A i \in 1 .. Len(trail[j]), k \in 1 .. Len(trail[j]) :
              (i # k /\ trail[j][i] = trail[j][k])
                  => trail[j][i] = N_STAGES - 1
        /\ Len(outs[j]) <= N_STAGES - 2

\* C35 witness: a job failed its tests, passed the advisory step, had a
\* failed delivery attempt and was delivered.
C35_Witness ==
    \E j \in Jobs :
        /\ trail[j] = <<0, 1, 2, N_STAGES - 2, N_STAGES - 1, N_STAGES - 1>>
        /\ delivered[j] = 1

\* C36: an entry of a step queue for a job that has been enqueued more
\* than once (by a worker, by worker_done_job or by the delivery retry)
\* has the default priority; only the entry the updater made carries the
\* priority of the message.
C36_RequeueAtDefaultPriority ==
    \A s \in Stages :
        \A i \in 1 .. Len(queues[s]) :
            Len(trail[queues[s][i][2]]) >= 2
                => queues[s][i][1] = DefaultPriority

\* C36 witness: a job that entered at step 0 waits at step 5 with
\* priority 5 after a failed delivery attempt.
C36_Witness ==
    \E j \in Jobs :
        /\ faults >= 1
        /\ queues[N_STAGES - 1] = << <<DefaultPriority, j>> >>
        /\ Len(trail[j]) >= 3
        /\ trail[j][1] = 0

====
